---- MODULE Spec2Model ----
(***************************************************************************)
(* The offline data store core of the SDK: the push and pull pipelines of  *)
(* SyncManager (src/src/core/datastore/sync/sync-manager.js) with the      *)
(* delta-set and auto-pagination branches of pull, the guard of            *)
(* CacheStore.pull and CacheStore.sync (src/src/core/datastore/            *)
(* cachestore.js), the in-memory offline repository they write to, and the *)
(* session refresh of KinveyRequest.execute (src/src/core/request/         *)
(* network.js).                                                            *)
(*                                                                         *)
(* One collection of one app is modelled.  Every promise callback of the   *)
(* code is one action; callers (Callers) are the application's concurrent  *)
(* calls on stores that share the collection.  The keys of the persister   *)
(* (clear of the repository), the per-key queue of its writes and the      *)
(* collection names of tagged stores have variables of their own.          *)
(***************************************************************************)
EXTENDS Integers, Sequences, FiniteSets, TLC

\* ------------------------------------------------------------------ bounds
\* Number of entity ids minted on the client; the backend mints as many.
NumIds == 2
\* Largest skip and largest limit a query of the model carries.
MaxSkip == 1
MaxLimit == 1
\* maxConcurrentPushRequests of the platform configuration.
MaxConcurrentPushes == 2
\* The backend's clock runs from 1 to MaxClock.
MaxClock == 3
\* maxConcurrentPullRequests of the platform configuration, and the largest
\* autoPagination.pageSize a pull is called with.
MaxConcurrentPulls == 2
MaxPageSize == 2
\* Number of authenticated requests the application issues.
NumRequests == 3
\* Number of local operations recorded per entity id.
MaxIntents == 3
\* Number of mutating operations issued on the offline repository.
MaxIssued == 2

\* ------------------------------------------------------------- vocabulary
Callers == {"A", "B"}
Collection == "books"
\* The key `undefined` of a call that passes no collection name.
Undefined == "undefined"

Ids == 1..NumIds
SrvIds == (NumIds + 1)..(2 * NumIds)
AllIds == 1..(2 * NumIds)
\* The content of an entity; Absent marks an id the backend does not hold.
Vals == {0, 1}
Absent == 0 - 1

\* An entity: _id, its content and _kmd.local.  NoEntity stands for null.
Ent(i, v, l) == [id |-> i, val |-> v, local |-> l]
NoEntity == Ent(0, 0, FALSE)

\* A query: its filter (NoFilter: every entity, else val = filter), skip and
\* limit (NoLimit: unset).  NoQuery is a call without a query object.
NoFilter == 0 - 1
NoLimit == 0 - 1
NoQuery == [defined |-> FALSE, filter |-> NoFilter, skip |-> 0, limit |-> NoLimit]
Query(f, s, l) == [defined |-> TRUE, filter |-> f, skip |-> s, limit |-> l]
Queries ==
  {NoQuery, Query(1, 0, NoLimit)}
    \cup {Query(NoFilter, s, l) : s \in 0..MaxSkip, l \in {NoLimit} \cup (1..MaxLimit)}
hasSkip(q) == q.skip > 0
hasLimit(q) == q.limit # NoLimit

VARIABLES
  offline,       \* the persisted array of the collection's entities
  syncItems,     \* the sync table: a set of [entityId, op]
  server,        \* the backend's collection: id -> content or Absent
  pushTracking,  \* pushTrackingByCollection: the keys that are set
  call,          \* per caller: the call in progress and its local state
  cachedQuery,   \* the query cache: query -> lastRequest, 0 when none
  clock,         \* the backend's time, the X-Kinvey-Request-Start it answers
  lmt,           \* the backend's time of the last change of each id
  intents,       \* per id: the local operations recorded so far
  request,       \* per network request: its execution
  requestQueue,  \* the request queue of network.js
  session,       \* the active user's token and what the refresh has done
  persister,     \* the key-value persister: key -> value, Absent when none
  clearing,      \* OfflineRepository.clear in progress
  crud,          \* the repository's promise queue and what was issued
  tagged         \* per collection name of a store: what is kept under it

storeVars == <<offline, syncItems, server, pushTracking, call>>
cacheVars == <<cachedQuery, clock, lmt>>
netVars == <<request, requestQueue, session>>
repoVars == <<persister, clearing, crud, tagged>>
vars == <<storeVars, cacheVars, intents, netVars, repoVars>>

\* ------------------------------------------------------- sequence helpers
Min(a, b) == IF a < b THEN a ELSE b
Range(s) == {s[i] : i \in 1..Len(s)}
IdsOf(s) == {s[i].id : i \in 1..Len(s)}

RECURSIVE SortById(_)
SortById(S) ==
  IF S = {} THEN <<>>
  ELSE LET m == CHOOSE x \in S : \A y \in S : x.id <= y.id
       IN <<m>> \o SortById(S \ {m})

\* -------------------------------------------------------- query evaluation
Matches(e, q) == q.filter = NoFilter \/ e.val = q.filter

\* applyQueryToDataset: filter, then skip, then limit; no query: everything.
applyQueryToDataset(all, q) ==
  IF ~q.defined THEN all
  ELSE LET f == SelectSeq(all, LAMBDA e : Matches(e, q))
           s == SubSeq(f, q.skip + 1, Len(f))
       IN IF hasLimit(q) THEN SubSeq(s, 1, Min(q.limit, Len(s))) ELSE s

\* ------------------------------------------------ InmemoryOfflineRepository
FirstIndex(all, id) ==
  IF \E i \in 1..Len(all) : all[i].id = id
  THEN CHOOSE i \in 1..Len(all) :
         all[i].id = id /\ \A j \in 1..(i - 1) : all[j].id # id
  ELSE 0

\* keyBy(entities, '_id'): the last entity of each id.
keyBy(ents, id) ==
  ents[CHOOSE i \in 1..Len(ents) :
         ents[i].id = id /\ \A j \in (i + 1)..Len(ents) : ents[j].id # id]

readById(all, id) ==
  IF FirstIndex(all, id) = 0 THEN NoEntity ELSE all[FirstIndex(all, id)]

_create(all, ents) == all \o ents

updateKeepsStored(all, ents) ==
  all \o SelectSeq(ents, LAMBDA e : e.id \notin IdsOf(all))
_update(all, ents) ==
  LET replaced == [i \in 1..Len(all) |->
                     IF all[i].id \in IdsOf(ents) /\ FirstIndex(all, all[i].id) = i
                     THEN keyBy(ents, all[i].id) ELSE all[i]]
      fresh == SelectSeq(ents, LAMBDA e : e.id \notin IdsOf(all))
      firsts == [i \in 1..Len(fresh) |-> keyBy(ents, fresh[i].id)]
      keys == {i \in 1..Len(fresh) : FirstIndex(fresh, fresh[i].id) = i}
      added == [k \in 1..Cardinality(keys) |->
                  firsts[CHOOSE i \in keys : Cardinality({j \in keys : j <= i}) = k]]
  IN replaced \o added

_delete(all, q) ==
  LET matching == applyQueryToDataset(all, q)
  IN SelectSeq(all, LAMBDA e : e.id \notin IdsOf(matching))

_deleteById(all, id) ==
  LET k == FirstIndex(all, id)
  IN IF k = 0 THEN all ELSE SubSeq(all, 1, k - 1) \o SubSeq(all, k + 1, Len(all))

\* -------------------------------------------------------- SyncStateManager
SyncItem(i, o) == [entityId |-> i, op |-> o]

\* getSyncItems(collection, entityIds): every item, or those of the ids.
getSyncItems(ids) ==
  LET chosen == IF ids.defined THEN {s \in syncItems : s.entityId \in ids.set}
                ELSE syncItems
      keyed == {[id |-> s.entityId, op |-> s.op] : s \in chosen}
      sorted == SortById(keyed)
  IN [k \in 1..Len(sorted) |-> SyncItem(sorted[k].id, sorted[k].op)]

removeSyncItemForEntityId(items, id) == {s \in items : s.entityId # id}

\* --------------------------------------------------------------- QueryCache
\* The canonical query of a CachedQuery: the filter, "" for none.
QueryKey(q) == IF q.defined THEN q.filter ELSE NoFilter
QueryKeys == {NoFilter, 1}
\* getCachedQuery: null for a query with a skip or a limit, else the entry
\* of the query, created without lastRequest when there is none.
hasCachedQueryAlways(q) == TRUE
hasCachedQuery(q) == ~q.defined \/ (~hasSkip(q) /\ ~hasLimit(q))
\* updateCachedQuery with lastRequest set to the response's requestStart.
updateCachedQuery(cache, q, requestStart) ==
  IF hasCachedQuery(q) THEN [cache EXCEPT ![QueryKey(q)] = requestStart] ELSE cache
deleteCachedQuery(cache, q) ==
  IF hasCachedQuery(q) THEN [cache EXCEPT ![QueryKey(q)] = 0] ELSE cache

\* ------------------------------------------------------------- the backend
ServerEntities ==
  SortById({Ent(i, server[i], FALSE) : i \in {j \in AllIds : server[j] # Absent}})

\* The id the backend gives an entity POSTed without _id.
MintedId == CHOOSE i \in SrvIds :
              /\ server[i] = Absent /\ i \notin IdsOf(offline)
              /\ \A j \in SrvIds :
                   (server[j] = Absent /\ j \notin IdsOf(offline)) => i <= j
CanMint == \E i \in SrvIds : server[i] = Absent /\ i \notin IdsOf(offline)

\* ---------------------------------------------------------- KinveyRequest
Requests == 1..NumRequests
\* A request of the application: where its execute() is, the retry argument
\* of the execute() that runs, the token its Authorization header carries,
\* how often it was sent, and what its promise settled with.
NewRequest == [pc |-> "idle", retry |-> TRUE, token |-> 0, sends |-> 0,
               result |-> "none"]
\* The session token the backend accepts: any token a refresh has issued.
Accepted(token) == token > 0

\* ------------------------------------------------------------ call records
NoIds == [defined |-> FALSE, set |-> {}]
NoPush == [done |-> FALSE, results |-> <<>>]
NoneSent == [deltaset |-> 0, find |-> 0, count |-> 0, page |-> 0]
\* options: useDeltaSet and the page size of autoPagination (0: off).
NoOptions == [useDeltaSet |-> FALSE, pageSize |-> 0]
NewCall(o, q) ==
  [op |-> o, pc |-> "idle", query |-> q, counted |-> 0, ids |-> NoIds,
   items |-> <<>>, results |-> <<>>, error |-> "none", data |-> <<>>,
   value |-> 0,
   options |-> NoOptions, deleted |-> {}, lastRequest |-> 0, pages |-> <<>>,
   sent |-> NoneSent, push |-> NoPush]
Settled(c) == c.pc \in {"idle", "resolved", "rejected"}
InPush(c) == c.pc \in {"ids", "items", "pushing"}
\* A settled call keeps what it settled with; its locals are gone.
Reject(c, err) == [NewCall(c.op, NoQuery) EXCEPT !.pc = "rejected", !.error = err]
Resolve(c, n) ==
  [NewCall(c.op, c.query) EXCEPT !.pc = "resolved", !.value = n,
                                 !.options = c.options, !.sent = c.sent,
                                 !.push = c.push]

\* One SyncItem of a push: st is queued (waiting in forEachAsync's queue),
\* sent (its request is in flight) or done; read is the offline entity
\* that was loaded and body the request body.
Item(s) == [entityId |-> s.entityId, op |-> s.op, st |-> "queued",
            read |-> NoEntity, body |-> NoEntity]
AllDone(c) == \A i \in 1..Len(c.items) : c.items[i].st = "done"
InFlight(c) == {i \in 1..Len(c.items) : c.items[i].st = "sent"}

\* _getPushOpResult plus what the handlers set on it.
PushOpResult(i, o, e, err) == [id |-> i, operation |-> o, entity |-> e, error |-> err]

\* ----------------------------------------------- SyncManager: push marker
\* A variant of _pushIsInProgress that never finds the marker.
pushIsInProgressNever(key) == FALSE
_pushIsInProgress(key) == key \in pushTracking
_markPushStart(key) ==
  IF ~_pushIsInProgress(key) THEN pushTracking \cup {key} ELSE pushTracking
_markPushEnd(key) ==
  IF _pushIsInProgress(key) THEN pushTracking \ {key} ELSE pushTracking

\* SyncManager.push up to its first asynchronous step, for the call record c:
\* the record it leaves and the keys it leaves set.
pushEntry(c) ==
  IF _pushIsInProgress(Collection) THEN Reject(c, "Sync")
  ELSE [c EXCEPT !.pc = IF c.query.defined THEN "ids" ELSE "items"]
pushEntryTracking ==
  IF _pushIsInProgress(Collection) THEN pushTracking ELSE _markPushStart(Collection)

\* The catch of SyncManager.push: it calls _markPushEnd without a collection.
pushCatchTracking == _markPushEnd(Undefined)

\* CacheStore.sync: the push has resolved with the results of c and the
\* pull is called.
syncPulls(c) ==
  [c EXCEPT !.pc = "count", !.push = [done |-> TRUE, results |-> c.results],
            !.results = <<>>, !.ids = NoIds, !.items = <<>>]
syncPullsWithoutResults(c) ==
  [c EXCEPT !.pc = "count", !.push = [done |-> TRUE, results |-> <<>>],
            !.results = <<>>, !.ids = NoIds, !.items = <<>>]

\* pushResolvedDropsResults is a variant whose sync forgets the push results.
pushResolvedDropsResults(c) ==
  IF c.op = "pull" \/ (c.op = "sync" /\ c.push.done)
  THEN [c EXCEPT !.pc = "pull"]
  ELSE IF c.op = "sync"
  THEN syncPullsWithoutResults(c)
  ELSE [c EXCEPT !.pc = "resolved", !.ids = NoIds, !.items = <<>>]

\* What a push that has ended hands its caller: CacheStore.push resolves,
\* CacheStore.pull goes on to SyncManager.pull, CacheStore.sync calls pull.
pushResolved(c) ==
  IF c.op = "pull" \/ (c.op = "sync" /\ c.push.done)
  THEN [c EXCEPT !.pc = "pull"]
  ELSE IF c.op = "sync"
  THEN syncPulls(c)
  ELSE [c EXCEPT !.pc = "resolved", !.ids = NoIds, !.items = <<>>]

\* ------------------------------------------------------ SyncManager: items
\* _sanitizeOfflineEntity: a copy without _id and without _kmd.local.
\* sanitizeKeepsAll is a variant that copies the entity as it is.
sanitizeKeepsAll(e) == e
_sanitizeOfflineEntity(e) == Ent(0, e.val, FALSE)

\* The entity _pushCreate POSTs.
entityToCreate(e) == IF e.local THEN _sanitizeOfflineEntity(e) ELSE e

\* _replaceOfflineEntityWithNetwork
_replaceOfflineEntityWithNetwork(all, offlineEntityId, networkEntity) ==
  _create(_deleteById(all, offlineEntityId), <<networkEntity>>)

\* _processSyncItem never rejects: whatever _pushItem settles with becomes
\* the item's result, which _processSyncItems collects.
\* A variant of settleItem in which a failed item rejects the whole push.
settleItemAborting(c, i, result) ==
  IF result.error # "none" THEN Reject(c, result.error)
  ELSE [c EXCEPT !.items[i].st = "done", !.results = Append(@, result)]
settleItem(c, i, result) ==
  [c EXCEPT !.items[i].st = "done", !.results = Append(@, result)]

\* _processSyncItem's handling of a settled _pushItem: the sync table after it.
\* Variants: the SyncItem is removed whatever the result, or never.
clearAlways(items, result) == removeSyncItemForEntityId(items, result.id)
clearNever(items, result) == items
clearOnSuccess(items, result) ==
  IF result.error # "none" THEN items
  ELSE removeSyncItemForEntityId(items, result.id)

\* _replaceOfflineEntities.  Variants: the delete runs whatever the query
\* carries, or never runs.
replaceAlwaysDeletes(all, q, networkEntities) ==
  _update(_delete(all, q), networkEntities)
replaceNeverDeletes(all, q, networkEntities) ==
  _update(all, networkEntities)
_replaceOfflineEntities(all, q, networkEntities) ==
  IF q.defined /\ (hasSkip(q) \/ hasLimit(q)) THEN _update(all, networkEntities)
  ELSE _update(_delete(all, q), networkEntities)

\* getSyncItemCountByEntityQuery
getSyncItemCountByEntityQuery(q) ==
  IF ~q.defined THEN Cardinality(syncItems)
  ELSE Len(getSyncItems([defined |-> TRUE,
                         set |-> IdsOf(applyQueryToDataset(offline, q))]))

\* CacheStore.pull: whether the guard pushes, and when the pull proper starts.
guardNever(count) == FALSE
guardPushes(count) == count > 0
readyAfterGuard(c) == c.pc = "pull" \/ (c.pc = "rejected" /\ c.op = "pull")
readyToPull(c) == c.pc = "pull"

\* ------------------------------------ InmemoryOfflineRepository: the keys
\* A key of the persister is a string, here a sequence of characters.  The
\* persister is shared: next to this app's keys it holds those of an app
\* whose app key starts with this app's key, and those of an unrelated app.
AppKey == <<"k">>
OtherAppKeys == {<<"k", "2">>, <<"j">>}
Dot == <<".">>
\* Collection names: books, active_user and kinvey_sync.
Books == <<"b">>
activeUserKey == <<"u">>
CollectionNames == {Books, activeUserKey, <<"s">>}
NoCollection == <<>>
PersisterKeys ==
  {app \o Dot \o c : app \in {AppKey} \cup OtherAppKeys, c \in CollectionNames}

_formCollectionKey(collection) == AppKey \o Dot \o collection

\* key.indexOf(appKey) === 0
_keyBelongsToApp(key) ==
  Len(AppKey) <= Len(key) /\ SubSeq(key, 1, Len(AppKey)) = AppKey

\* key.substring(`${appKey}.`.length)
_getCollectionFromKey(key) == SubSeq(key, Len(AppKey \o Dot) + 1, Len(key))

\* _getAllCollections: the collection of every key that belongs to the app.
_getAllCollections(keys) ==
  {_getCollectionFromKey(key) : key \in {k \in keys : _keyBelongsToApp(k)}}

\* persister.delete(key); a key that is not stored is left alone.
persisterDelete(p, key) ==
  IF key \in DOMAIN p THEN [p EXCEPT ![key] = Absent] ELSE p

\* _deleteAll: the key of the collection is deleted unless it is the key of
\* the active user.
deleteAllAlways(p, collection) == persisterDelete(p, _formCollectionKey(collection))
_deleteAll(p, collection) ==
  IF _formCollectionKey(collection) # AppKey \o Dot \o activeUserKey
  THEN persisterDelete(p, _formCollectionKey(collection))
  ELSE p

\* Every collection name a clear may come to delete.
ClearableCollections == CollectionNames \cup _getAllCollections(PersisterKeys)

\* persister.getKeys()
getKeys(p) == {key \in DOMAIN p : p[key] # Absent}

NoClear == [pc |-> "idle", collection |-> NoCollection, keys |-> {}, collections |-> {}]

\* ------------------------------- InmemoryOfflineRepository: the operations
\* A mutating operation of the repository as it is issued: create and update
\* carry entities, delete a query, deleteById an id.
CrudOp(t, ents, q, id) == [type |-> t, ents |-> ents, query |-> q, id |-> id]
CrudEntities == {Ent(i, v, FALSE) : i \in Ids, v \in Vals}
CrudInputs ==
  {<<e>> : e \in CrudEntities} \cup {<<e, f>> : e \in CrudEntities, f \in CrudEntities}
CrudOps ==
  {CrudOp(t, ents, NoQuery, 0) : t \in {"create", "update"}, ents \in CrudInputs}
    \cup {CrudOp("delete", <<>>, q, 0) : q \in Queries}
    \cup {CrudOp("deleteById", <<>>, NoQuery, i) : i \in Ids}

\* The array the operation computes from the array it has read.
applyCrud(op, all) ==
  CASE op.type = "create" -> _create(all, op.ents)
    [] op.type = "update" -> _update(all, op.ents)
    [] op.type = "delete" -> _delete(all, op.query)
    [] op.type = "deleteById" -> _deleteById(all, op.id)

\* _saveAll is called by _create and _update always, by _delete when
\* something was deleted, by _deleteById when the id was found.
savesAll(op, all) ==
  CASE op.type \in {"create", "update"} -> TRUE
    [] op.type = "delete" -> Len(_delete(all, op.query)) < Len(all)
    [] op.type = "deleteById" -> FirstIndex(all, op.id) > 0

\* What the operation's promise resolves with: the input of create and
\* update, the number of entities deleted.
crudResult(op, all) ==
  CASE op.type \in {"create", "update"} -> [entities |-> op.ents, count |-> 0]
    [] op.type = "delete" ->
         [entities |-> <<>>, count |-> Len(applyQueryToDataset(all, op.query))]
    [] op.type = "deleteById" ->
         [entities |-> <<>>, count |-> IF FirstIndex(all, op.id) > 0 THEN 1 ELSE 0]

\* PromiseQueue.enqueue(key, fn): fn runs only after every fn enqueued
\* before it for the key has resolved.
canRunAlways(queue, k) == TRUE
canRun(queue, k) == k = 1

Queued(op) == [op |-> op, st |-> "queued", all |-> <<>>]
NoResult == [entities |-> <<>>, count |-> 0 - 1]
NoCrud == [queue |-> <<>>, issued |-> <<>>, base |-> <<>>,
           done |-> CrudOp("none", <<>>, NoQuery, 0), result |-> NoResult]

\* ------------------------------------------------------ CacheStore: the tag
\* The tags of the stores of the collection; NoTag is a store without one.
NoTag == <<>>
Tags == {<<"t">>, <<"v">>}
\* formTaggedCollectionName(collection, tag)
formTaggedCollectionName(collection, tag) ==
  IF tag = NoTag THEN collection ELSE collection \o Dot \o tag
\* The stores the application has constructed: two of each tag.
Stores == {[collection |-> Books, tag |-> t, n |-> i] : t \in Tags \cup {NoTag}, i \in 1..2}
\* CacheStore's constructor: this.collection.
collectionUntagged(store) == store.collection
collectionOf(store) == formTaggedCollectionName(store.collection, store.tag)
TaggedNames == {collectionOf(store) : store \in Stores}
\* What is kept under a collection name: the ids of the offline entities, the
\* ids of the SyncItems, lastRequest of the CachedQuery and the push marker.
NoState == [entities |-> {}, syncItems |-> {}, lastRequest |-> 0, pushing |-> FALSE]
\* The entity ids the stores of the tag model work with.
TagIds == {1}
\* Nothing is kept under any name; last is the store operation that ran last.
NoOperation == [store |-> [collection |-> Books, tag |-> NoTag, n |-> 0], op |-> "none"]
NoTagged == [last |-> NoOperation, state |-> [name \in TaggedNames |-> NoState]]

\* Nothing is persisted, cleared or queued.
RepoIdle ==
  /\ persister = [key \in PersisterKeys |-> Absent]
  /\ clearing = NoClear
  /\ crud = NoCrud
  /\ tagged = NoTagged

\* ------------------------------------------------------------------- Init
\* The states a collection's id can be in before the calls of the model,
\* each reached by the store's own operations:
\*   nothing anywhere; saved on the backend by another client; pulled and
\*   fresh; pulled and since changed on the backend; created offline with a
\*   minted id; created offline with an id of the application; updated
\*   offline; removed offline; removed offline and already gone on the
\*   backend; updated offline and then dropped from the cache.
IdCases(i) ==
  { [off |-> NoEntity,         sync |-> "none",   srv |-> Absent],
    [off |-> NoEntity,         sync |-> "none",   srv |-> 1],
    [off |-> Ent(i, 1, FALSE), sync |-> "none",   srv |-> 1],
    [off |-> Ent(i, 0, FALSE), sync |-> "none",   srv |-> 1],
    [off |-> Ent(i, 1, TRUE),  sync |-> "Create", srv |-> Absent],
    [off |-> Ent(i, 0, FALSE), sync |-> "Create", srv |-> Absent],
    [off |-> Ent(i, 1, FALSE), sync |-> "Update", srv |-> 0],
    [off |-> NoEntity,         sync |-> "Delete", srv |-> 1],
    [off |-> NoEntity,         sync |-> "Delete", srv |-> Absent],
    [off |-> NoEntity,         sync |-> "Update", srv |-> 1] }

InitStates == {f \in [Ids -> UNION {IdCases(i) : i \in Ids}] :
                 \A i \in Ids : f[i] \in IdCases(i)}

\* Nothing pulled yet; no request waits for a session.
CacheIdle ==
  /\ cachedQuery = [k \in QueryKeys |-> 0]
  /\ clock = 1
  /\ lmt = [i \in AllIds |-> 0]
IntentsIdle == intents = [i \in 0..NumIds |-> <<>>]
NetIdle ==
  /\ request = [r \in Requests |-> NewRequest]
  /\ requestQueue = [isPaused |-> FALSE, queued |-> {}]
  /\ session = [token |-> 0, refreshes |-> 0, errors |-> 0, users |-> 0]

Init ==
  \E f \in InitStates :
    /\ offline = SortById({f[i].off : i \in {j \in Ids : f[j].off # NoEntity}})
    /\ syncItems = {SyncItem(i, f[i].sync) : i \in {j \in Ids : f[j].sync # "none"}}
    /\ server = [i \in AllIds |-> IF i \in Ids THEN f[i].srv ELSE Absent]
    /\ pushTracking = {}
    /\ call = [p \in Callers |-> NewCall("none", NoQuery)]
    /\ CacheIdle
    /\ IntentsIdle
    /\ NetIdle
    /\ RepoIdle

\* ------------------------------------------------------- CacheStore.push
StorePush(p, q) ==
  /\ Settled(call[p])
  /\ call' = [call EXCEPT ![p] = pushEntry(NewCall("push", q))]
  /\ pushTracking' = pushEntryTracking
  /\ UNCHANGED <<offline, syncItems, server>>
  /\ UNCHANGED <<cacheVars, intents, netVars, repoVars>>

\* _getEntityIdsForQuery: the _ids of the offline entities the query reads.
getEntityIdsOfAll(all, q) == IdsOf(all)
getEntityIdsOfSyncItems(all, q) == {s.entityId : s \in syncItems}
_getEntityIdsForQuery(all, q) == IdsOf(applyQueryToDataset(all, q))

\* _getEntityIdsForQuery resolves.
PushReadIds(p) ==
  /\ call[p].pc = "ids"
  /\ call' = [call EXCEPT ![p].pc = "items",
                          ![p].ids = [defined |-> TRUE,
                                      set |-> _getEntityIdsForQuery(offline, call[p].query)]]
  /\ UNCHANGED <<offline, syncItems, server, pushTracking>>
  /\ UNCHANGED <<cacheVars, intents, netVars, repoVars>>

\* getSyncItems resolves and _processSyncItems hands every item to forEachAsync.
PushGetSyncItems(p) ==
  /\ call[p].pc = "items"
  /\ LET found == getSyncItems(call[p].ids)
     IN call' = [call EXCEPT ![p].pc = "pushing",
                             ![p].items = [k \in 1..Len(found) |-> Item(found[k])]]
  /\ UNCHANGED <<offline, syncItems, server, pushTracking>>
  /\ UNCHANGED <<cacheVars, intents, netVars, repoVars>>

\* _pushItem's catch of NotFoundError: the item of a missing entity is
\* dropped unless its operation is Delete.
dropsItemOfEveryOperation(op, e) == e = NoEntity
dropsItem(op, e) == e = NoEntity /\ op # "Delete"

\* _pushItem: the queue starts the item, readById answers and _handlePushOp
\* issues the request; an entity that is missing drops a Create or Update.
PushItemStart(p, i) ==
  /\ call[p].pc = "pushing"
  /\ i \in 1..Len(call[p].items)
  /\ call[p].items[i].st = "queued"
  /\ \A j \in 1..(i - 1) : call[p].items[j].st # "queued"
  /\ Cardinality(InFlight(call[p])) < MaxConcurrentPushes
  /\ LET it == call[p].items[i]
         e == readById(offline, it.entityId)
     IN IF dropsItem(it.op, e)
        THEN /\ syncItems' = removeSyncItemForEntityId(syncItems, it.entityId)
             /\ call' = [call EXCEPT ![p] =
                  settleItem(@, i, PushOpResult(it.entityId, it.op, NoEntity, "NotFound"))]
        ELSE /\ call' = [call EXCEPT
                  ![p].items[i].st = "sent",
                  ![p].items[i].read = e,
                  ![p].items[i].body = CASE it.op = "Create" -> entityToCreate(e)
                                         [] it.op = "Update" -> e
                                         [] OTHER -> NoEntity]
             /\ UNCHANGED syncItems
  /\ UNCHANGED <<offline, server, pushTracking>>
  /\ UNCHANGED <<cacheVars, intents, netVars, repoVars>>

\* The backend's answer to an item's request, as _pushCreate, _pushUpdate or
\* _pushDelete and then _processSyncItem handle it.  ok: the request reached
\* the backend, which refuses only the DELETE of an entity it does not hold
\* (EntityNotFound); otherwise the request failed on the network.
createdBy(body) == IF body.id = 0 THEN Ent(MintedId, body.val, FALSE)
                   ELSE Ent(body.id, body.val, FALSE)

PushItemResponse(p, i, ok) ==
  /\ call[p].pc = "pushing"
  /\ i \in 1..Len(call[p].items)
  /\ call[p].items[i].st = "sent"
  /\ LET it == call[p].items[i]
         answered == ok /\ (it.op = "Delete" => server[it.entityId] # Absent)
         fromServer == CASE it.op = "Create" -> createdBy(it.body)
                         [] it.op = "Update" -> Ent(it.body.id, it.body.val, FALSE)
                         [] OTHER -> NoEntity
         result == IF answered
                   THEN PushOpResult(it.entityId, it.op, fromServer, "none")
                   ELSE PushOpResult(it.entityId, it.op,
                                     IF it.op = "Update" THEN it.read ELSE NoEntity,
                                     IF ok THEN "EntityNotFound" ELSE "Network")
     IN /\ (ok /\ it.op = "Create" /\ it.body.id = 0) => CanMint
        /\ server' = IF ~answered THEN server
                     ELSE IF it.op = "Delete" THEN [server EXCEPT ![it.entityId] = Absent]
                     ELSE [server EXCEPT ![fromServer.id] = fromServer.val]
        /\ offline' = IF ~answered THEN offline
                      ELSE CASE it.op = "Create" ->
                                  _replaceOfflineEntityWithNetwork(offline, it.read.id, fromServer)
                             [] it.op = "Update" -> _update(offline, <<fromServer>>)
                             [] OTHER -> offline
        /\ syncItems' = clearOnSuccess(syncItems, result)
        /\ call' = [call EXCEPT ![p] = settleItem(@, i, result)]
  /\ UNCHANGED pushTracking
  /\ UNCHANGED <<cacheVars, intents, netVars, repoVars>>

\* forEachAsync resolves once every item is done; push clears the marker.
PushEnd(p) ==
  /\ call[p].pc = "pushing"
  /\ AllDone(call[p])
  /\ pushTracking' = _markPushEnd(Collection)
  /\ call' = [call EXCEPT ![p] = pushResolved(@)]
  /\ UNCHANGED <<offline, syncItems, server>>
  /\ UNCHANGED <<cacheVars, intents, netVars, repoVars>>

\* ------------------------------------------------ persister failures (push)
\* _getEntityIdsForQuery or getSyncItems rejects: the catch of push.
PushReadFault(p) ==
  /\ call[p].pc \in {"ids", "items"}
  /\ pushTracking' = pushCatchTracking
  /\ call' = [call EXCEPT ![p] = Reject(@, "Persister")]
  /\ UNCHANGED <<offline, syncItems, server>>
  /\ UNCHANGED <<cacheVars, intents, netVars, repoVars>>

\* readById of an item rejects with an error that is not NotFound.
PushItemReadFault(p, i) ==
  /\ call[p].pc = "pushing"
  /\ i \in 1..Len(call[p].items)
  /\ call[p].items[i].st = "queued"
  /\ \A j \in 1..(i - 1) : call[p].items[j].st # "queued"
  /\ Cardinality(InFlight(call[p])) < MaxConcurrentPushes
  /\ LET it == call[p].items[i]
     IN call' = [call EXCEPT ![p] =
          settleItem(@, i, PushOpResult(it.entityId, it.op, NoEntity, "Persister"))]
  /\ UNCHANGED <<offline, syncItems, server, pushTracking>>
  /\ UNCHANGED <<cacheVars, intents, netVars, repoVars>>

\* ------------------------------------------- SyncManager: add...Event
\* The pending operation of an id in the sync table.
pendingOp(items, id) ==
  IF \E s \in items : s.entityId = id
  THEN (CHOOSE s \in items : s.entityId = id).op
  ELSE "none"

\* SyncStateManager.add...Event for one entity: the operation-merge rules.
mergeEvent(items, id, op) ==
  LET prev == pendingOp(items, id)
      others == removeSyncItemForEntityId(items, id)
  IN CASE prev = "none" -> [items |-> items \cup {SyncItem(id, op)}, error |-> "none"]
       [] prev = "Delete" -> [items |-> items, error |-> "Sync"]
       [] prev = "Create" /\ op = "Delete" -> [items |-> others, error |-> "none"]
       [] prev = "Update" /\ op = "Delete" ->
            [items |-> others \cup {SyncItem(id, "Delete")}, error |-> "none"]
       [] OTHER -> [items |-> items, error |-> "none"]
addCreateEvent(items, id) == mergeEvent(items, id, "Create")
addUpdateEvent(items, id) == mergeEvent(items, id, "Update")
addDeleteEvent(items, id) == mergeEvent(items, id, "Delete")

\* _setState: the SyncStateManager method of the sync operation.
_setStateUpdatesOnly(items, id, syncOp) ==
  CASE syncOp = "Create" -> addCreateEvent(items, id)
    [] syncOp \in {"Update", "Delete"} -> addUpdateEvent(items, id)
    [] OTHER -> [items |-> items, error |-> "Sync"]
_setState(items, id, syncOp) ==
  CASE syncOp = "Create" -> addCreateEvent(items, id)
    [] syncOp = "Update" -> addUpdateEvent(items, id)
    [] syncOp = "Delete" -> addDeleteEvent(items, id)
    [] OTHER -> [items |-> items, error |-> "Sync"]

\* _addEvent: an entity without _id (id 0) is refused with SyncError, else
\* _setState records the operation.
_addEvent(items, id, syncOp) ==
  IF id = 0 THEN [items |-> items, error |-> "Sync"]
  ELSE _setState(items, id, syncOp)

SyncOperations == {"Create", "Update", "Delete"}

\* The entities argument of add...Event: undefined, or a list of entities;
\* an entity without _id has id 0.
NoEntities == [defined |-> FALSE, list |-> <<>>]
Entities(list) == [defined |-> TRUE, list |-> list]
\* _validateCrudEventEntities: the SyncError of a missing or empty argument
\* and of the first entity without _id, or none.
validateFirstEntityOnly(entities) ==
  IF ~entities.defined \/ entities.list = <<>> THEN "Sync"
  ELSE IF entities.list[1].id = 0 THEN "Sync" ELSE "none"
_validateCrudEventEntities(entities) ==
  IF ~entities.defined \/ entities.list = <<>> THEN "Sync"
  ELSE IF \E k \in 1..Len(entities.list) : entities.list[k].id = 0 THEN "Sync"
  ELSE "none"
\* _setState for the entities of one call, in their order, up to the first
\* that the sync table refuses.
RECURSIVE _setStateOfAll(_, _, _)
_setStateOfAll(items, list, syncOp) ==
  IF list = <<>> THEN [items |-> items, error |-> "none"]
  ELSE LET set == _setState(items, Head(list).id, syncOp)
       IN IF set.error # "none" THEN set
          ELSE _setStateOfAll(set.items, Tail(list), syncOp)
\* _addEvent(collection, entities, syncOp) for the entities of one call.
_addEventOfEntities(items, entities, syncOp) ==
  IF _validateCrudEventEntities(entities) # "none"
  THEN [items |-> items, error |-> _validateCrudEventEntities(entities)]
  ELSE _setStateOfAll(items, entities.list, syncOp)

\* addCreateEvent / addUpdateEvent / addDeleteEvent of SyncManager called
\* with entities: rejected with the error, or resolved with the entities.
AddEvents(p, entities, syncOp) ==
  /\ LET added == _addEventOfEntities(syncItems, entities, syncOp)
         c == [NewCall(syncOp, NoQuery) EXCEPT !.ids = [defined |-> entities.defined,
                                                        set |-> IdsOf(entities.list)]]
     IN /\ syncItems' = added.items
        /\ call' = [call EXCEPT ![p] =
                      IF added.error # "none"
                      THEN [c EXCEPT !.pc = "rejected", !.error = added.error]
                      ELSE [c EXCEPT !.pc = "resolved", !.data = entities.list]]
  /\ UNCHANGED <<offline, server, pushTracking>>
  /\ UNCHANGED <<cacheVars, intents, netVars, repoVars>>

\* addCreateEvent / addUpdateEvent / addDeleteEvent of SyncManager for one
\* entity; a store creates only an entity that has no pending operation.
AddEvent(id, syncOp) ==
  /\ Len(intents[id]) < MaxIntents
  /\ syncOp = "Create" => pendingOp(syncItems, id) = "none"
  /\ LET added == _addEvent(syncItems, id, syncOp)
     IN /\ syncItems' = added.items
        /\ intents' = [intents EXCEPT
                         ![id] = Append(@, [op |-> syncOp, error |-> added.error])]
  /\ UNCHANGED <<offline, server, pushTracking, call>>
  /\ UNCHANGED <<cacheVars, netVars, repoVars>>

\* ------------------------------------------------------- CacheStore.sync
\* sync(query) calls push(query).
StoreSync(p, q) ==
  /\ Settled(call[p])
  /\ call' = [call EXCEPT ![p] = pushEntry(NewCall("sync", q))]
  /\ pushTracking' = pushEntryTracking
  /\ UNCHANGED <<offline, syncItems, server>>
  /\ UNCHANGED <<cacheVars, intents, netVars, repoVars>>

\* ------------------------------------------------------- CacheStore.pull
StorePull(p, q) ==
  /\ Settled(call[p])
  /\ call' = [call EXCEPT ![p] = [NewCall("pull", q) EXCEPT !.pc = "count"]]
  /\ UNCHANGED <<offline, syncItems, server, pushTracking>>
  /\ UNCHANGED <<cacheVars, intents, netVars, repoVars>>

\* getSyncItemCountByEntityQuery resolves: push first when items are pending.
PullCount(p) ==
  /\ call[p].pc = "count"
  /\ LET count == getSyncItemCountByEntityQuery(call[p].query)
         c == [call[p] EXCEPT !.counted = count]
     IN IF guardPushes(count)
        THEN /\ call' = [call EXCEPT ![p] = pushEntry(c)]
             /\ pushTracking' = pushEntryTracking
        ELSE /\ call' = [call EXCEPT ![p] = [c EXCEPT !.pc = "pull"]]
             /\ UNCHANGED pushTracking
  /\ UNCHANGED <<offline, syncItems, server>>
  /\ UNCHANGED <<cacheVars, intents, netVars, repoVars>>

\* SyncManager.pull takes the regular branch.
regularPull(c) == ~c.options.useDeltaSet /\ c.options.pageSize = 0

\* SyncManager.pull, regular branch: _fetchItemsFromServer issues the find.
PullFetch(p) ==
  /\ readyToPull(call[p])
  /\ regularPull(call[p])
  /\ call' = [call EXCEPT ![p].pc = "fetching", ![p].sent.find = @ + 1]
  /\ UNCHANGED <<offline, syncItems, server, pushTracking>>
  /\ UNCHANGED <<cacheVars, intents, netVars, repoVars>>

\* The backend answers the find, or the request fails.
PullResponse(p, ok) ==
  /\ call[p].pc = "fetching"
  /\ call' = IF ok
             THEN [call EXCEPT ![p].pc = "apply",
                               ![p].data = applyQueryToDataset(ServerEntities, call[p].query)]
             ELSE [call EXCEPT ![p] = Reject(@, "Network")]
  /\ cachedQuery' = IF ok THEN updateCachedQuery(cachedQuery, call[p].query, clock)
                    ELSE cachedQuery
  /\ UNCHANGED <<offline, syncItems, server, pushTracking>>
  /\ UNCHANGED <<clock, lmt, intents, netVars, repoVars>>

\* _replaceOfflineEntities has written; the pull resolves with data.length.
PullApply(p) ==
  /\ call[p].pc = "apply"
  /\ offline' = _replaceOfflineEntities(offline, call[p].query, call[p].data)
  /\ call' = [call EXCEPT ![p] = Resolve(@, Len(call[p].data))]
  /\ UNCHANGED <<syncItems, server, pushTracking>>
  /\ UNCHANGED <<cacheVars, intents, netVars, repoVars>>

\* ---------------------------------------------- SyncManager.pull, delta set
\* pull(query, options) of a store, with the options of the call.
StorePullOptions(p, q, o) ==
  /\ Settled(call[p])
  /\ o # NoOptions
  /\ call' = [call EXCEPT ![p] = [NewCall("pull", q) EXCEPT !.pc = "count",
                                                            !.options = o]]
  /\ UNCHANGED <<offline, syncItems, server, pushTracking>>
  /\ UNCHANGED <<cacheVars, intents, netVars, repoVars>>

\* Another client of the backend writes or deletes an entity.
ServerMutate(i, v) ==
  /\ clock < MaxClock
  /\ server[i] # v
  /\ clock' = clock + 1
  /\ server' = [server EXCEPT ![i] = v]
  /\ lmt' = [lmt EXCEPT ![i] = clock']
  /\ UNCHANGED <<offline, syncItems, pushTracking, call, cachedQuery>>
  /\ UNCHANGED <<intents, netVars, repoVars>>

\* What _deltaset answers for since: the entities written and the ids
\* deleted after it.
deltaChanged(since) == SelectSeq(ServerEntities, LAMBDA e : lmt[e.id] > since)
deltaDeleted(since) == {i \in AllIds : server[i] = Absent /\ lmt[i] > since}

\* deltaSet(collection, query, options): without a CachedQuery (the query
\* has a skip or a limit) it throws InvalidCachedQuery and sends nothing,
\* else it sends _deltaset with since = lastRequest.
DeltaSetRequest(p) ==
  /\ readyToPull(call[p])
  /\ call[p].options.useDeltaSet
  /\ call' = IF hasCachedQuery(call[p].query)
             THEN [call EXCEPT ![p].pc = "deltaset", ![p].sent.deltaset = @ + 1]
             ELSE [call EXCEPT ![p].pc = "invalid"]
  /\ UNCHANGED <<offline, syncItems, server, pushTracking>>
  /\ UNCHANGED <<cacheVars, intents, netVars, repoVars>>

\* The backend answers _deltaset: the difference, InvalidCachedQuery (the
\* since is empty or too old, or the collection is not configured), or the
\* request fails.  On the difference the CachedQuery takes requestStart.
DeltaSetResponse(p, answer) ==
  /\ call[p].pc = "deltaset"
  /\ LET since == cachedQuery[QueryKey(call[p].query)]
     IN CASE answer = "changes" ->
               /\ since > 0
               /\ call' = [call EXCEPT ![p].pc = "delta",
                                       ![p].data = deltaChanged(since),
                                       ![p].deleted = deltaDeleted(since),
                                       ![p].lastRequest = clock]
               /\ cachedQuery' = updateCachedQuery(cachedQuery, call[p].query, clock)
          [] answer = "InvalidCachedQuery" ->
               /\ call' = [call EXCEPT ![p].pc = "invalid"]
               /\ UNCHANGED cachedQuery
          [] answer = "Network" ->
               /\ since > 0
               /\ call' = [call EXCEPT ![p] = Reject(@, "Network")]
               /\ UNCHANGED cachedQuery
  /\ UNCHANGED <<offline, syncItems, server, pushTracking>>
  /\ UNCHANGED <<clock, lmt, intents, netVars, repoVars>>

\* offlineRepo.delete with Query.contains('_id', ids).
_deleteIds(all, ids) == SelectSeq(all, LAMBDA e : e.id \notin ids)

\* pull, lines 85-104: delete the deleted when there are any, then update
\* with the changed when there are any.
applyDeltaChangedOnly(all, deleted, changed) ==
  IF Len(changed) > 0 THEN _update(all, changed) ELSE all
applyDeltaDeletedOnly(all, deleted, changed) ==
  IF deleted # {} THEN _deleteIds(all, deleted) ELSE all
applyDelta(all, deleted, changed) ==
  LET kept == IF deleted # {} THEN _deleteIds(all, deleted) ELSE all
  IN IF Len(changed) > 0 THEN _update(kept, changed) ELSE kept

\* The difference is written; the pull resolves with changed.length.
DeltaApply(p) ==
  /\ call[p].pc = "delta"
  /\ offline' = applyDelta(offline, call[p].deleted, call[p].data)
  /\ call' = [call EXCEPT ![p] = Resolve(@, Len(call[p].data))]
  /\ UNCHANGED <<syncItems, server, pushTracking>>
  /\ UNCHANGED <<cacheVars, intents, netVars, repoVars>>

\* pull's catch of InvalidCachedQuery: the CachedQuery is deleted and pull
\* is called again with useDeltaSet set to false.
fallbackKeepsDeltaSet(c) == [c EXCEPT !.pc = "pull"]
fallback(c) == [c EXCEPT !.pc = "pull", !.options.useDeltaSet = FALSE]
DeltaFallback(p) ==
  /\ call[p].pc = "invalid"
  /\ cachedQuery' = deleteCachedQuery(cachedQuery, call[p].query)
  /\ call' = [call EXCEPT ![p] = fallback(@)]
  /\ UNCHANGED <<offline, syncItems, server, pushTracking>>
  /\ UNCHANGED <<clock, lmt, intents, netVars, repoVars>>

DeltaAnswers == {"changes", "InvalidCachedQuery", "Network"}
DeltaSteps(p) ==
  \/ DeltaSetRequest(p)
  \/ \E a \in DeltaAnswers : DeltaSetResponse(p, a)
  \/ DeltaApply(p)
  \/ DeltaFallback(p)

\* ------------------------------------------ SyncManager.pull, autoPagination
\* pull takes _paginatedPull.
paginatedPullFirst(c) == c.options.pageSize > 0
paginatedPull(c) == ~c.options.useDeltaSet /\ c.options.pageSize > 0

\* _getExpectedEntityCount sends the count of the query's filter.
PagedCount(p) ==
  /\ readyToPull(call[p])
  /\ paginatedPull(call[p])
  /\ call' = [call EXCEPT ![p].pc = "counting", ![p].sent.count = @ + 1]
  /\ UNCHANGED <<offline, syncItems, server, pushTracking>>
  /\ UNCHANGED <<cacheVars, intents, netVars, repoVars>>

\* Math.ceil(totalCount / pageSize)
Ceil(n, d) == (n + d - 1) \div d
Floor(n, d) == n \div d

\* splitQueryIntoPages(query, pageSize, totalCount): page i skips
\* query.skip + i * pageSize and is limited to what is left, at most pageSize.
Page(q, i, pageSize, totalCount) ==
  [query |-> Query(q.filter, q.skip + i * pageSize,
                   Min(totalCount - i * pageSize, pageSize)),
   st |-> "queued"]
splitQueryIntoFullPages(q, pageSize, totalCount) ==
  [k \in 1..Floor(totalCount, pageSize) |-> Page(q, k - 1, pageSize, totalCount)]
splitQueryIntoPages(q, pageSize, totalCount) ==
  [k \in 1..Ceil(totalCount, pageSize) |-> Page(q, k - 1, pageSize, totalCount)]

\* _getInternalPullQuery: the user's filter, sorted by _id, limit totalCount.
getInternalPullQueryWithSkip(userQuery, totalCount) ==
  Query(userQuery.filter, userQuery.skip, totalCount)
_getInternalPullQuery(userQuery, totalCount) ==
  Query(userQuery.filter, 0, totalCount)
\* The count query: the user's filter alone.
countQuery(userQuery) == Query(userQuery.filter, 0, NoLimit)

\* The backend answers the count, or the request fails.  On the count the
\* whole offline collection is deleted and the page queries are queued.
PagedCountResponse(p, ok) ==
  /\ call[p].pc = "counting"
  /\ IF ok
     THEN LET count == Len(applyQueryToDataset(ServerEntities, countQuery(call[p].query)))
              pullQuery == _getInternalPullQuery(call[p].query, count)
          IN /\ call' = [call EXCEPT ![p].pc = "pages",
                                     ![p].lastRequest = clock,
                                     ![p].pages = splitQueryIntoPages(
                                        pullQuery, call[p].options.pageSize, count)]
             /\ offline' = _delete(offline, NoQuery)
     ELSE /\ call' = [call EXCEPT ![p] = Reject(@, "Network")]
          /\ UNCHANGED offline
  /\ UNCHANGED <<syncItems, server, pushTracking>>
  /\ UNCHANGED <<cacheVars, intents, netVars, repoVars>>

PagesInFlight(c) == {k \in 1..Len(c.pages) : c.pages[k].st = "sent"}
pagesDoneWithTheFirst(c) == \E k \in 1..Len(c.pages) : c.pages[k].st \in {"done", "failed"}
PagesDone(c) == \A k \in 1..Len(c.pages) : c.pages[k].st \in {"done", "failed"}

\* forEachAsync: the queue starts the next page query, at most
\* maxConcurrentPulls at a time; _fetchAndUpdateEntities sends its read.
PageFetch(p, k) ==
  /\ call[p].pc = "pages"
  /\ k \in 1..Len(call[p].pages)
  /\ call[p].pages[k].st = "queued"
  /\ \A j \in 1..(k - 1) : call[p].pages[j].st # "queued"
  /\ Cardinality(PagesInFlight(call[p])) < MaxConcurrentPulls
  /\ call' = [call EXCEPT ![p].pages[k].st = "sent", ![p].sent.page = @ + 1]
  /\ UNCHANGED <<offline, syncItems, server, pushTracking>>
  /\ UNCHANGED <<cacheVars, intents, netVars, repoVars>>

\* The backend answers a page, which is written and counted, or the request
\* fails, which forEachAsync takes as the end of that page as well.
PageResponse(p, k, ok) ==
  /\ call[p].pc = "pages"
  /\ k \in 1..Len(call[p].pages)
  /\ call[p].pages[k].st = "sent"
  /\ IF ok
     THEN LET entities == applyQueryToDataset(ServerEntities, call[p].pages[k].query)
          IN /\ offline' = _update(offline, entities)
             /\ call' = [call EXCEPT ![p].pages[k].st = "done",
                                     ![p].value = @ + Len(entities)]
     ELSE /\ call' = [call EXCEPT ![p].pages[k].st = "failed"]
          /\ UNCHANGED offline
  /\ UNCHANGED <<syncItems, server, pushTracking>>
  /\ UNCHANGED <<cacheVars, intents, netVars, repoVars>>

\* Every page has ended: the CachedQuery takes the count's requestStart and
\* the pull resolves with pulledEntityCount.
PagedEnd(p) ==
  /\ call[p].pc = "pages"
  /\ PagesDone(call[p])
  /\ cachedQuery' = updateCachedQuery(cachedQuery, call[p].query, call[p].lastRequest)
  /\ call' = [call EXCEPT ![p] = Resolve(@, call[p].value)]
  /\ UNCHANGED <<offline, syncItems, server, pushTracking>>
  /\ UNCHANGED <<clock, lmt, intents, netVars, repoVars>>

\* Time passes on the backend.
Tick ==
  /\ clock < MaxClock
  /\ clock' = clock + 1
  /\ UNCHANGED <<storeVars, cachedQuery, lmt, intents, netVars, repoVars>>

MaxPages == Ceil(2 * NumIds, 1)
PagedSteps(p) ==
  \/ PagedCount(p)
  \/ \E ok \in BOOLEAN : PagedCountResponse(p, ok)
  \/ \E k \in 1..MaxPages : PageFetch(p, k)
  \/ \E k \in 1..MaxPages, ok \in BOOLEAN : PageResponse(p, k, ok)
  \/ PagedEnd(p)

\* ------------------------------------------------- KinveyRequest.execute
\* execute(rawResponse, retry = true): the Authorization header is set from
\* the active user's session and the request is sent.
Execute(r) ==
  /\ request[r].pc = "idle"
  /\ request' = [request EXCEPT ![r] = [@ EXCEPT !.pc = "sent", !.retry = TRUE,
                                                 !.token = session.token,
                                                 !.sends = @ + 1]]
  /\ UNCHANGED <<requestQueue, session>>
  /\ UNCHANGED <<storeVars, cacheVars, intents, repoVars>>

\* requestQueue.start(): the queue is not paused any more and every
\* function waiting on it runs, i.e. execute(rawResponse, false) of every
\* queued request sends it with the session's token.
startQueue(reqs, queue, token) ==
  [q \in Requests |->
     IF q \in queue.queued
     THEN [reqs[q] EXCEPT !.pc = "sent", !.retry = FALSE, !.token = token,
                          !.sends = @ + 1]
     ELSE reqs[q]]
Started == [isPaused |-> FALSE, queued |-> {}]

\* The catch of execute for InvalidCredentialsError, lines 451-473 and
\* 638-661: on a paused queue the request is added to the queue to be
\* executed with retry false; else the queue is paused, and the request
\* starts the refresh if retry is set, or rejects if it is not.
onInvalidCredentialsUnqueued(r) ==
  /\ requestQueue' = [requestQueue EXCEPT !.isPaused = TRUE]
  /\ IF request[r].retry
     THEN /\ request' = [request EXCEPT ![r].pc = "token"]
          /\ session' = [session EXCEPT !.refreshes = @ + 1]
     ELSE /\ request' = [request EXCEPT ![r].pc = "rejected",
                                        ![r].result = "InvalidCredentials"]
          /\ UNCHANGED session
onInvalidCredentials(r) ==
  IF requestQueue.isPaused
  THEN /\ request' = [request EXCEPT ![r].pc = "queued", ![r].retry = FALSE]
       /\ requestQueue' = [requestQueue EXCEPT !.queued = @ \cup {r}]
       /\ UNCHANGED session
  ELSE /\ requestQueue' = [requestQueue EXCEPT !.isPaused = TRUE]
       /\ IF request[r].retry
          THEN /\ request' = [request EXCEPT ![r].pc = "token"]
               /\ session' = [session EXCEPT !.refreshes = @ + 1]
          ELSE /\ request' = [request EXCEPT ![r].pc = "rejected",
                                             ![r].result = "InvalidCredentials"]
               /\ UNCHANGED session

\* The backend answers the request: 200 resolves it, 401 is thrown as
\* InvalidCredentialsError into the catch.
Response(r, status) ==
  /\ request[r].pc = "sent"
  /\ IF status = 200
     THEN /\ Accepted(request[r].token)
          /\ request' = [request EXCEPT ![r].pc = "resolved", ![r].result = "ok"]
          /\ UNCHANGED <<requestQueue, session>>
     ELSE onInvalidCredentials(r)
  /\ UNCHANGED <<storeVars, cacheVars, intents, repoVars>>

\* The catch of the refresh, lines 547-554: the error goes to
\* refreshUserSubject, the queue is started, and the promise of the request
\* is resolved with the error it had.
refreshFailed(r) ==
  /\ session' = [session EXCEPT !.errors = @ + 1]
  /\ request' = [startQueue(request, requestQueue, session.token)
                   EXCEPT ![r].pc = "resolved", ![r].result = "InvalidCredentials"]
  /\ requestQueue' = Started

\* POST /oauth/token is answered: with the new session, which is sent to
\* /user/<appKey>/login, or with an error.
TokenResponse(r, ok) ==
  /\ request[r].pc = "token"
  /\ IF ok
     THEN /\ request' = [request EXCEPT ![r].pc = "login"]
          /\ UNCHANGED <<requestQueue, session>>
     ELSE refreshFailed(r)
  /\ UNCHANGED <<storeVars, cacheVars, intents, repoVars>>

\* The login is answered: the user goes to refreshUserSubject and becomes
\* the active user, the queue is started and the request is executed again
\* with retry false; or the login fails.
LoginResponse(r, ok) ==
  /\ request[r].pc = "login"
  /\ IF ok
     THEN LET token == session.token + 1
          IN /\ session' = [session EXCEPT !.token = token, !.users = @ + 1]
             /\ request' = [startQueue(request, requestQueue, token)
                              EXCEPT ![r].pc = "sent", ![r].retry = FALSE,
                                     ![r].token = token, ![r].sends = @ + 1]
             /\ requestQueue' = Started
     ELSE refreshFailed(r)
  /\ UNCHANGED <<storeVars, cacheVars, intents, repoVars>>

\* The request is answered 401 on a queue that is not paused, with retry
\* set and no active user, or an active user without kinveyAuth session:
\* the queue is paused, nothing is refreshed, and the catch falls through to
\* requestQueue.start() and rejects with the error.
ResponseNoSession(r) ==
  /\ request[r].pc = "sent"
  /\ request[r].retry
  /\ ~requestQueue.isPaused
  /\ request' = [startQueue(request, requestQueue, session.token)
                   EXCEPT ![r].pc = "rejected", ![r].result = "InvalidCredentials"]
  /\ requestQueue' = Started
  /\ UNCHANGED session
  /\ UNCHANGED <<storeVars, cacheVars, intents, repoVars>>

\* POST /oauth/token or the login of the refresh is answered 401: the catch
\* of that request finds the queue paused and adds its execute to the
\* queue, and the refresh waits for it.
RefreshUnauthorized(r) ==
  /\ request[r].pc \in {"token", "login"}
  /\ request' = [request EXCEPT ![r].pc = "waiting"]
  /\ UNCHANGED <<requestQueue, session>>
  /\ UNCHANGED <<storeVars, cacheVars, intents, repoVars>>

\* What the backend of the refresh scenario answers: 401 to the expired
\* token, 200 to a refreshed one.
Answer(r) == IF Accepted(request[r].token) THEN 200 ELSE 401

\* ------------------------------------------------ OfflineRepository.clear
\* clear(collection): the collection given, or every collection of the app
\* when none is given.
RepoClear(collection) ==
  /\ clearing.pc \in {"idle", "done"}
  /\ clearing' = IF collection = NoCollection
                 THEN [NoClear EXCEPT !.pc = "keys"]
                 ELSE [NoClear EXCEPT !.pc = "delete", !.collection = collection,
                                      !.collections = {collection}]
  /\ UNCHANGED <<storeVars, cacheVars, intents, netVars, persister, crud, tagged>>

\* _getAllCollections answers; _clearCollections enqueues one _deleteAll
\* per collection.
ClearGetKeys ==
  /\ clearing.pc = "keys"
  /\ clearing' = [clearing EXCEPT !.pc = "delete",
                                  !.keys = getKeys(persister),
                                  !.collections = _getAllCollections(getKeys(persister))]
  /\ UNCHANGED <<storeVars, cacheVars, intents, netVars, persister, crud, tagged>>

\* The enqueued _deleteAll of one collection runs.
ClearDeleteAll(collection) ==
  /\ clearing.pc = "delete"
  /\ collection \in clearing.collections
  /\ persister' = _deleteAll(persister, collection)
  /\ clearing' = [clearing EXCEPT !.collections = @ \ {collection}]
  /\ UNCHANGED <<storeVars, cacheVars, intents, netVars, crud, tagged>>

\* Promise.all of the deletes resolves.
ClearEnd ==
  /\ clearing.pc = "delete"
  /\ clearing.collections = {}
  /\ clearing' = [clearing EXCEPT !.pc = "done"]
  /\ UNCHANGED <<storeVars, cacheVars, intents, netVars, persister, crud, tagged>>

\* --------------------------------- OfflineRepository: mutating operations
\* create, update, delete and deleteById: _enqueueCrudOperation puts the
\* operation in the queue of the collection's key.
CrudEnqueue(op) ==
  /\ Len(crud.issued) < MaxIssued
  /\ crud' = [crud EXCEPT !.queue = Append(@, Queued(op)),
                          !.issued = Append(@, op)]
  /\ UNCHANGED <<storeVars, cacheVars, intents, netVars, persister, clearing, tagged>>

\* The operation starts: _readAll answers the persisted array.
CrudRead(k) ==
  /\ k \in 1..Len(crud.queue)
  /\ canRun(crud.queue, k)
  /\ crud.queue[k].st = "queued"
  /\ crud' = [crud EXCEPT !.queue[k] = [@ EXCEPT !.st = "read", !.all = offline]]
  /\ UNCHANGED <<storeVars, cacheVars, intents, netVars, persister, clearing, tagged>>

\* The operation changes the array it has read, _saveAll writes it and the
\* operation's promise resolves.
CrudWrite(k) ==
  /\ k \in 1..Len(crud.queue)
  /\ crud.queue[k].st = "read"
  /\ LET op == crud.queue[k].op
         all == crud.queue[k].all
     IN /\ offline' = IF savesAll(op, all) THEN applyCrud(op, all) ELSE offline
        /\ crud' = [crud EXCEPT
                      !.queue = SubSeq(@, 1, k - 1) \o SubSeq(@, k + 1, Len(@)),
                      !.done = op,
                      !.result = crudResult(op, all)]
  /\ UNCHANGED <<syncItems, server, pushTracking, call>>
  /\ UNCHANGED <<cacheVars, intents, netVars, persister, clearing, tagged>>

\* ------------------------------------------ Sync store: create and remove
\* No call of a caller is in progress.
Quiet == \A p \in Callers : Settled(call[p])

\* create(entity) of an entity without _id: the store mints an _id that was
\* never used, stamps _kmd.local, writes the entity to the offline
\* repository and records the Create.
LocalCreate(i, v) ==
  /\ intents[i] = <<>>
  /\ i \notin IdsOf(offline)
  /\ pendingOp(syncItems, i) = "none"
  /\ server[i] = Absent
  /\ LET added == _addEvent(syncItems, i, "Create")
     IN /\ offline' = _create(offline, <<Ent(i, v, TRUE)>>)
        /\ syncItems' = added.items
        /\ intents' = [intents EXCEPT
                         ![i] = Append(@, [op |-> "Create", error |-> added.error,
                                           quiet |-> Quiet])]
  /\ UNCHANGED <<server, pushTracking, call>>
  /\ UNCHANGED <<cacheVars, netVars, repoVars>>

\* removeById(id) of an entity the offline repository holds: the entity is
\* deleted and the Delete is recorded (a pending Create is dropped with it).
LocalRemove(i) ==
  /\ Len(intents[i]) < MaxIntents
  /\ i \in IdsOf(offline)
  /\ LET added == _addEvent(syncItems, i, "Delete")
     IN /\ offline' = IF added.error = "none" THEN _deleteById(offline, i) ELSE offline
        /\ syncItems' = added.items
        /\ intents' = [intents EXCEPT
                         ![i] = Append(@, [op |-> "Delete", error |-> added.error,
                                           quiet |-> Quiet])]
  /\ UNCHANGED <<server, pushTracking, call>>
  /\ UNCHANGED <<cacheVars, netVars, repoVars>>

\* ------------------------------------------- CacheStore: tagged stores
\* Every operation of a store addresses the offline repository, the sync
\* table, the query cache and the push marker with this.collection.
\* The operation op of the store has run and has left kept under the
\* store's collection name.
StoreOperation(store, op, kept) ==
  tagged' = [last |-> [store |-> store, op |-> op],
             state |-> [tagged.state EXCEPT ![collectionOf(store)] = kept]]

\* save: the entity is written and its SyncItem recorded.
TagSave(store, i) ==
  /\ LET kept == tagged.state[collectionOf(store)]
     IN StoreOperation(store, "save",
          [kept EXCEPT !.entities = @ \cup {i}, !.syncItems = @ \cup {i}])
  /\ UNCHANGED <<storeVars, cacheVars, intents, netVars, persister, clearing, crud>>

\* removeById: the entity is deleted and its SyncItem recorded.
TagRemove(store, i) ==
  /\ LET kept == tagged.state[collectionOf(store)]
     IN /\ i \in kept.entities
        /\ StoreOperation(store, "remove",
             [kept EXCEPT !.entities = @ \ {i}, !.syncItems = @ \cup {i}])
  /\ UNCHANGED <<storeVars, cacheVars, intents, netVars, persister, clearing, crud>>

\* clear: the entities and the SyncItems of the collection are deleted.
TagClear(store) ==
  /\ LET kept == tagged.state[collectionOf(store)]
     IN StoreOperation(store, "clear",
          [kept EXCEPT !.entities = {}, !.syncItems = {}])
  /\ UNCHANGED <<storeVars, cacheVars, intents, netVars, persister, clearing, crud>>

\* push (also the push of sync): the marker of the collection is set; a push
\* that finds it set is rejected.
TagPushStart(store) ==
  /\ LET kept == tagged.state[collectionOf(store)]
     IN /\ ~kept.pushing
        /\ StoreOperation(store, "push", [kept EXCEPT !.pushing = TRUE])
  /\ UNCHANGED <<storeVars, cacheVars, intents, netVars, persister, clearing, crud>>

\* The push ends: the SyncItems are cleared and so is the marker.
TagPushEnd(store) ==
  /\ LET kept == tagged.state[collectionOf(store)]
     IN /\ kept.pushing
        /\ StoreOperation(store, "pushed",
             [kept EXCEPT !.syncItems = {}, !.pushing = FALSE])
  /\ UNCHANGED <<storeVars, cacheVars, intents, netVars, persister, clearing, crud>>

\* pull (also the pull of sync), when nothing is pending: the entities are
\* replaced by what the backend holds and the CachedQuery takes lastRequest.
TagPull(store, fetched) ==
  /\ LET kept == tagged.state[collectionOf(store)]
     IN /\ kept.syncItems = {}
        /\ StoreOperation(store, "pull",
             [kept EXCEPT !.entities = fetched, !.lastRequest = 1])
  /\ UNCHANGED <<storeVars, cacheVars, intents, netVars, persister, clearing, crud>>

\* ------------------------------------------------- DataStore.clearCache
\* Storage.clear: the adapter drops everything the app keeps, that is the
\* entities of its collections, the SyncItems and the CachedQuery records.
clear(kept) ==
  [offline |-> <<>>, syncItems |-> {}, cachedQuery |-> [k \in QueryKeys |-> 0]]

\* clearCache(options): a DELETE of /appdata/<appKey> through the cache
\* middleware, issued by the application between its store calls.
ClearCache(p) ==
  /\ \A c \in Callers : Settled(call[c])
  /\ LET kept == clear([offline |-> offline, syncItems |-> syncItems,
                        cachedQuery |-> cachedQuery])
     IN /\ offline' = kept.offline
        /\ syncItems' = kept.syncItems
        /\ cachedQuery' = kept.cachedQuery
  /\ call' = [call EXCEPT ![p] = Resolve(NewCall("clearCache", NoQuery), 0)]
  /\ UNCHANGED <<server, pushTracking, clock, lmt, intents, netVars, repoVars>>

\* offlineRepo rejects the write of _replaceOfflineEntities: the pull
\* rejects; the CachedQuery was updated when the response arrived.
PullApplyFault(p) ==
  /\ call[p].pc = "apply"
  /\ call' = [call EXCEPT ![p] = Reject(@, "Persister")]
  /\ UNCHANGED <<offline, syncItems, server, pushTracking>>
  /\ UNCHANGED <<cacheVars, intents, netVars, repoVars>>

\* offlineRepo rejects the delete or the update of the delta-set branch:
\* nothing was written, or the delete was and the update was not.
DeltaApplyFault(p, deletedOnly) ==
  /\ call[p].pc = "delta"
  /\ offline' = IF deletedOnly
                THEN applyDeltaDeletedOnly(offline, call[p].deleted, call[p].data)
                ELSE offline
  /\ call' = [call EXCEPT ![p] = Reject(@, "Persister")]
  /\ UNCHANGED <<syncItems, server, pushTracking>>
  /\ UNCHANGED <<cacheVars, intents, netVars, repoVars>>

\* --------------------------- CacheStore: pendingSync*, SyncManager.clearSync
\* pendingSyncCount(query) and clearSync(query) read the offline repository
\* when a query is given, pendingSyncEntities(query) always does.
SyncQueryOps == {"pendingSyncCount", "pendingSyncEntities", "clearSync"}
readsEntities(op, q) == q.defined \/ op = "pendingSyncEntities"
StoreSyncQuery(p, op, q) ==
  /\ Settled(call[p])
  /\ call' = [call EXCEPT ![p] =
                [NewCall(op, q) EXCEPT
                   !.pc = IF readsEntities(op, q) THEN "entities" ELSE "table"]]
  /\ UNCHANGED <<offline, syncItems, server, pushTracking>>
  /\ UNCHANGED <<cacheVars, intents, netVars, repoVars>>

\* repo.read(collection, query) resolves: the _ids of the entities read.
SyncQueryRead(p) ==
  /\ call[p].pc = "entities"
  /\ call' = [call EXCEPT ![p].pc = "table",
                          ![p].ids = [defined |-> TRUE,
                                      set |-> _getEntityIdsForQuery(offline, call[p].query)]]
  /\ UNCHANGED <<offline, syncItems, server, pushTracking>>
  /\ UNCHANGED <<cacheVars, intents, netVars, repoVars>>

\* The SyncStateManager answers: the items of the ids (every item without
\* ids) are counted, returned, or removed by clearSync.
SyncQueryTable(p) ==
  /\ call[p].pc = "table"
  /\ LET found == getSyncItems(call[p].ids)
     IN /\ syncItems' = IF call[p].op = "clearSync"
                        THEN syncItems \ Range(found) ELSE syncItems
        /\ call' = [call EXCEPT ![p] = [Resolve(@, Len(found)) EXCEPT
                                          !.ids = call[p].ids]]
  /\ UNCHANGED <<offline, server, pushTracking>>
  /\ UNCHANGED <<cacheVars, intents, netVars, repoVars>>

\* ---------------------------------------------------------- specifications
PushSteps(p) ==
  \/ PushReadIds(p)
  \/ PushGetSyncItems(p)
  \/ \E i \in 1..NumIds : PushItemStart(p, i)
  \/ \E i \in 1..NumIds, ok \in BOOLEAN : PushItemResponse(p, i, ok)
  \/ PushEnd(p)

PullSteps(p) ==
  \/ PullCount(p)
  \/ PullFetch(p)
  \/ \E ok \in BOOLEAN : PullResponse(p, ok)
  \/ PullApply(p)

\* One caller pushes and pulls, one call after the other.
NextOne ==
  \/ \E q \in Queries : StorePush("A", q)
  \/ PushSteps("A")
  \/ \E q \in Queries : StorePull("A", q)
  \/ PullSteps("A")

\* Two callers push concurrently.
NextPush ==
  \E p \in Callers :
    \/ \E q \in Queries : StorePush(p, q)
    \/ PushSteps(p)

\* Caller A pushes and pulls while caller B pushes.
Next ==
  \/ NextOne
  \/ StorePush("B", NoQuery)
  \/ PushSteps("B")

\* The persister fails.
Fault ==
  \E p \in Callers :
    \/ PushReadFault(p)
    \/ \E i \in 1..NumIds : PushItemReadFault(p, i)

FaultOne ==
  \/ PushReadFault("A")
  \/ \E i \in 1..NumIds : PushItemReadFault("A", i)

\* The persister works; only requests may fail.
Spec == Init /\ [][Next]_vars
SpecOne == Init /\ [][NextOne]_vars
SpecPush == Init /\ [][NextPush]_vars

\* One caller pulls every entity, with and without useDeltaSet, with and
\* without a limit, while other clients change the backend.  Nothing is
\* pending in the sync table, so that the backend changes by ServerMutate
\* only.
DeltaQueries == {NoQuery, Query(NoFilter, 0, NoLimit), Query(NoFilter, 0, 1)}
DeltaOptions == {[useDeltaSet |-> TRUE, pageSize |-> 0]}
NextDelta ==
  \/ \E q \in DeltaQueries : StorePull("A", q)
  \/ \E q \in DeltaQueries, o \in DeltaOptions : StorePullOptions("A", q, o)
  \/ PullSteps("A")
  \/ DeltaSteps("A")
  \/ \E i \in Ids, v \in Vals \cup {Absent} : ServerMutate(i, v)
InitDelta == Init /\ syncItems = {}
SpecDelta == InitDelta /\ [][NextDelta]_vars

\* One caller pulls with autoPagination from a backend that holds up to
\* 2 * NumIds entities and does not change; nothing is pending in the sync
\* table.
PagedQueries == {NoQuery, Query(NoFilter, 0, NoLimit), Query(1, 0, NoLimit)}
PagedOptions == {[useDeltaSet |-> FALSE, pageSize |-> n] : n \in 1..MaxPageSize}
NextPaged ==
  \/ \E q \in PagedQueries, o \in PagedOptions : StorePullOptions("A", q, o)
  \/ PullCount("A")
  \/ PagedSteps("A")
  \/ Tick
InitPaged ==
  /\ \E f \in InitStates :
       /\ \A i \in Ids : f[i].sync = "none"
       /\ offline = SortById({f[i].off : i \in {j \in Ids : f[j].off # NoEntity}})
  /\ syncItems = {}
  /\ server \in [AllIds -> Vals \cup {Absent}]
  /\ pushTracking = {}
  /\ call = [p \in Callers |-> NewCall("none", NoQuery)]
  /\ CacheIdle
  /\ IntentsIdle
  /\ NetIdle
  /\ RepoIdle
SpecPaged == InitPaged /\ [][NextPaged]_vars

\* The application's requests are sent with an expired session; the backend
\* accepts every refreshed session and every refresh succeeds.
NextAuth ==
  \E r \in Requests :
    \/ Execute(r)
    \/ Response(r, Answer(r))
    \/ TokenResponse(r, TRUE)
    \/ LoginResponse(r, TRUE)
\* The refresh may fail, and the backend may refuse a refreshed session.
NextAuthFaults ==
  \E r \in Requests :
    \/ Execute(r)
    \/ \E status \in {200, 401} : Response(r, status)
    \/ \E ok \in BOOLEAN : TokenResponse(r, ok)
    \/ \E ok \in BOOLEAN : LoginResponse(r, ok)
InitAuth ==
  /\ offline = <<>>
  /\ syncItems = {}
  /\ server = [i \in AllIds |-> Absent]
  /\ pushTracking = {}
  /\ call = [p \in Callers |-> NewCall("none", NoQuery)]
  /\ CacheIdle
  /\ IntentsIdle
  /\ NetIdle
  /\ RepoIdle
SpecAuth == InitAuth /\ [][NextAuth]_vars
SpecAuthFaults == InitAuth /\ [][NextAuthFaults]_vars

\* One caller syncs, one call after the other; the persister may fail.
NextSync ==
  \/ \E q \in Queries : StoreSync("A", q)
  \/ PushSteps("A")
  \/ PullSteps("A")
  \/ FaultOne
SpecSync == Init /\ [][NextSync]_vars

\* The stores record local operations in an empty sync table.
NextIntents == \E id \in 0..NumIds, syncOp \in SyncOperations : AddEvent(id, syncOp)
InitIntents ==
  /\ offline = <<>>
  /\ syncItems = {}
  /\ server = [i \in AllIds |-> Absent]
  /\ pushTracking = {}
  /\ call = [p \in Callers |-> NewCall("none", NoQuery)]
  /\ CacheIdle
  /\ IntentsIdle
  /\ NetIdle
  /\ RepoIdle
SpecIntents == InitIntents /\ [][NextIntents]_vars

\* The persister may fail as well.
SpecOneFaults == Init /\ [][NextOne \/ FaultOne]_vars
SpecPushFaults == Init /\ [][NextPush \/ Fault]_vars

\* The repository clears one collection or all of them in a persister that
\* holds any of the keys of the three apps.
NextRepoClear ==
  \/ \E collection \in {NoCollection} \cup CollectionNames : RepoClear(collection)
  \/ ClearGetKeys
  \/ \E collection \in ClearableCollections : ClearDeleteAll(collection)
  \/ ClearEnd
InitRepoClear ==
  /\ offline = <<>>
  /\ syncItems = {}
  /\ server = [i \in AllIds |-> Absent]
  /\ pushTracking = {}
  /\ call = [p \in Callers |-> NewCall("none", NoQuery)]
  /\ CacheIdle
  /\ IntentsIdle
  /\ NetIdle
  /\ persister \in [PersisterKeys -> {Absent, 1}]
  /\ clearing = NoClear
  /\ crud = NoCrud
  /\ tagged = NoTagged
SpecRepoClear == InitRepoClear /\ [][NextRepoClear]_vars

\* The application issues up to MaxIssued mutating operations on the
\* collection without waiting for any of them.
NextCrud ==
  \/ \E op \in CrudOps : CrudEnqueue(op)
  \/ \E k \in 1..MaxIssued : CrudRead(k)
  \/ \E k \in 1..MaxIssued : CrudWrite(k)
InitCrud ==
  /\ \E f \in InitStates :
       offline = SortById({f[i].off : i \in {j \in Ids : f[j].off # NoEntity}})
  /\ syncItems = {}
  /\ server = [i \in AllIds |-> Absent]
  /\ pushTracking = {}
  /\ call = [p \in Callers |-> NewCall("none", NoQuery)]
  /\ CacheIdle
  /\ IntentsIdle
  /\ NetIdle
  /\ persister = [key \in PersisterKeys |-> Absent]
  /\ clearing = NoClear
  /\ crud = [NoCrud EXCEPT !.base = offline]
  /\ tagged = NoTagged
SpecCrud == InitCrud /\ [][NextCrud]_vars

\* The application creates and removes entities in a Sync store while one
\* caller pushes and pulls; the first id is not in use yet.
LocalQueries == {NoQuery, Query(1, 0, NoLimit)}
NextLocal ==
  \/ \E i \in Ids, v \in Vals : LocalCreate(i, v)
  \/ \E i \in Ids : LocalRemove(i)
  \/ \E q \in LocalQueries : StorePush("A", q)
  \/ PushSteps("A")
  \/ \E q \in LocalQueries : StorePull("A", q)
  \/ PullSteps("A")
InitLocal ==
  /\ Init
  /\ 1 \notin IdsOf(offline)
  /\ pendingOp(syncItems, 1) = "none"
  /\ server[1] = Absent
SpecLocal == InitLocal /\ [][NextLocal]_vars

\* One caller pulls, one call after the other, in each of the three ways
\* (regular, delta set, autoPagination) while the backend changes.
NextPulls ==
  \/ \E q \in DeltaQueries : StorePull("A", q)
  \/ \E q \in DeltaQueries, o \in DeltaOptions : StorePullOptions("A", q, o)
  \/ \E q \in PagedQueries, o \in PagedOptions : StorePullOptions("A", q, o)
  \/ PullSteps("A")
  \/ DeltaSteps("A")
  \/ PagedSteps("A")
  \/ \E i \in Ids, v \in Vals \cup {Absent} : ServerMutate(i, v)
SpecPulls == InitDelta /\ [][NextPulls]_vars

\* The application works with stores of the collection: two without a tag
\* and two of each tag.
NextTagged ==
  \E store \in Stores :
    \/ \E i \in TagIds : TagSave(store, i)
    \/ \E i \in TagIds : TagRemove(store, i)
    \/ TagClear(store)
    \/ TagPushStart(store)
    \/ TagPushEnd(store)
    \/ \E fetched \in SUBSET TagIds : TagPull(store, fetched)
SpecTagged == InitAuth /\ [][NextTagged]_vars

\* The application pulls with useDeltaSet and clears the cache between its
\* pulls, while other clients change the backend.
NextClearCache ==
  \/ NextDelta
  \/ ClearCache("B")
SpecClearCache == InitDelta /\ [][NextClearCache]_vars

\* One caller pulls with useDeltaSet and autoPagination together, one call
\* after the other, while other clients change the backend.
UnboundedQueries == {NoQuery, Query(NoFilter, 0, NoLimit)}
DeltaPagedOptions == {[useDeltaSet |-> TRUE, pageSize |-> n] : n \in 1..MaxPageSize}
NextDeltaPaged ==
  \/ \E q \in UnboundedQueries, o \in DeltaPagedOptions : StorePullOptions("A", q, o)
  \/ PullCount("A")
  \/ DeltaSteps("A")
  \/ PagedSteps("A")
  \/ \E i \in Ids, v \in Vals \cup {Absent} : ServerMutate(i, v)
SpecDeltaPaged == InitDelta /\ [][NextDeltaPaged]_vars

\* One caller pulls with autoPagination and a query that has a skip and a
\* limit, from a backend that does not change.
BoundedQueries == {Query(NoFilter, MaxSkip, MaxLimit), Query(1, MaxSkip, MaxLimit)}
NextPagedBounded ==
  \/ \E q \in BoundedQueries, o \in PagedOptions : StorePullOptions("A", q, o)
  \/ PullCount("A")
  \/ PagedSteps("A")
  \/ Tick
SpecPagedBounded == InitPaged /\ [][NextPagedBounded]_vars

\* The stores record local operations of up to two entities per call, some
\* of them without _id.
EventEntities ==
  {NoEntities, Entities(<<>>)}
    \cup {Entities(<<Ent(i, 1, TRUE)>>) : i \in 0..NumIds}
    \cup {Entities(<<Ent(i, 1, TRUE), Ent(j, 1, TRUE)>>) : i, j \in 0..NumIds}
NextEvents ==
  \E entities \in EventEntities, syncOp \in SyncOperations : AddEvents("A", entities, syncOp)
SpecEvents == InitIntents /\ [][NextEvents]_vars

\* The application's requests with every answer of the backend: the user
\* may have no session to refresh, and the refresh's own requests may be
\* answered 401.
AnswerRequest(r) ==
  \/ \E status \in {200, 401} : Response(r, status)
  \/ ResponseNoSession(r)
AnswerRefresh(r) ==
  \/ \E ok \in BOOLEAN : TokenResponse(r, ok)
  \/ \E ok \in BOOLEAN : LoginResponse(r, ok)
  \/ RefreshUnauthorized(r)
NextAuthSessions ==
  \E r \in Requests :
    \/ Execute(r)
    \/ AnswerRequest(r)
    \/ AnswerRefresh(r)
SpecAuthSessions == InitAuth /\ [][NextAuthSessions]_vars
\* The backend answers every request that was sent.
SpecAuthFair ==
  /\ SpecAuthSessions
  /\ \A r \in Requests : WF_vars(AnswerRequest(r)) /\ WF_vars(AnswerRefresh(r))

\* One caller pulls the whole collection, with and without useDeltaSet,
\* while other clients change the backend and the offline repository may
\* reject a write.
NextApplyFaults ==
  \/ \E q \in UnboundedQueries : StorePull("A", q)
  \/ \E q \in UnboundedQueries, o \in DeltaOptions : StorePullOptions("A", q, o)
  \/ PullSteps("A")
  \/ DeltaSteps("A")
  \/ \E i \in Ids, v \in Vals \cup {Absent} : ServerMutate(i, v)
  \/ PullApplyFault("A")
  \/ \E deletedOnly \in BOOLEAN : DeltaApplyFault("A", deletedOnly)
SpecApplyFaults == InitDelta /\ [][NextApplyFaults]_vars

\* One caller pushes, pulls, counts, lists and clears the pending items,
\* with and without a query, one call after the other.
NextSyncQueries ==
  \/ \E op \in SyncQueryOps, q \in Queries : StoreSyncQuery("A", op, q)
  \/ SyncQueryRead("A")
  \/ SyncQueryTable("A")
  \/ \E q \in Queries : StorePush("A", q)
  \/ PushSteps("A")
  \/ \E q \in Queries : StorePull("A", q)
  \/ PullSteps("A")
SpecSyncQueries == Init /\ [][NextSyncQueries]_vars

\* Caller A pulls with and without a query while caller B pushes the
\* collection; the reads of A's guard push may fail.
NextGuard ==
  \/ \E q \in LocalQueries : StorePull("A", q)
  \/ PullSteps("A")
  \/ PushSteps("A")
  \/ PushReadFault("A")
  \/ StorePush("B", NoQuery)
  \/ PushSteps("B")
SpecGuard == Init /\ [][NextGuard]_vars

\* ------------------------------------------------------------- properties
\* The callers whose SyncManager.push has not settled.
PushersOf == {p \in Callers : InPush(call[p])}

\* The step in which caller p calls CacheStore.push.
PushCalled(p) ==
  /\ Settled(call[p])
  /\ call'[p] # call[p]
  /\ call'[p].op = "push"

\* C1: at most one push of the collection runs at any time; a push called
\* while another caller's push of the collection is in progress rejects with
\* SyncError, having read no SyncItem, issued no request and written
\* nothing, and the push in progress goes on undisturbed.
PushMutualExclusion ==
  /\ [](Cardinality(PushersOf) <= 1)
  /\ [][\A p \in Callers : \A r \in Callers \ {p} :
          (PushCalled(p) /\ InPush(call[r])) =>
             /\ call'[p].pc = "rejected"
             /\ call'[p].error = "Sync"
             /\ call'[p].items = <<>>
             /\ call'[p].results = <<>>
             /\ call'[r] = call[r]
             /\ UNCHANGED <<offline, syncItems, server>>]_vars

\* A request of one caller's push is in flight and the other caller's push
\* has been rejected with SyncError.
SecondPushRejected ==
  \E p \in Callers : \E r \in Callers \ {p} :
    /\ call[p].pc = "pushing"
    /\ InFlight(call[p]) # {}
    /\ call[r].op = "push"
    /\ call[r].pc = "rejected"
    /\ call[r].error = "Sync"

\* C2: whenever no push of the collection is running, whether the last one
\* resolved or rejected, the collection's in-progress marker is unset, so
\* that a later push is not rejected with SyncError.
PushMarkerCleared ==
  PushersOf = {} => ~_pushIsInProgress(Collection)

\* The step in which caller p's pull settles, and the one in which its
\* SyncManager.push ends.
PullSettles(p) ==
  /\ call[p].op = "pull"
  /\ ~Settled(call[p])
  /\ Settled(call'[p])
PushEnds(p) ==
  /\ call[p].pc = "pushing"
  /\ call'[p].pc # "pushing"

\* C3: when a pull whose guard pushed settles, whatever the push did, every
\* entity that was in the offline repository and still has a pending Create
\* or Update SyncItem is there with the content it had: the pull does not
\* overwrite or drop an edit that has not been pushed.
PullKeepsUnpushedEdits ==
  [][\A p \in Callers :
       (PullSettles(p) /\ call[p].counted > 0) =>
         \A s \in syncItems' :
           (s.op \in {"Create", "Update"} /\ readById(offline, s.entityId) # NoEntity)
             => readById(offline', s.entityId) = readById(offline, s.entityId)]_vars

\* C4: when CacheStore.pull finds pending SyncItems, the GET of the pull is
\* issued only after the guard's push has taken every one of them and each
\* has its result: no request of the push is queued or in flight.
PushBeforePull ==
  \A p \in Callers :
    (call[p].op = "pull" /\ call[p].pc \in {"fetching", "apply"} /\ call[p].counted > 0) =>
      /\ Len(call[p].items) = call[p].counted
      /\ AllDone(call[p])
      /\ Len(call[p].results) = call[p].counted

\* The GET of a pull is in flight after its guard pushed an item to the
\* backend.
PullFetchesAfterPush ==
  \E p \in Callers :
    /\ call[p].op = "pull"
    /\ call[p].pc = "fetching"
    /\ call[p].counted > 0
    /\ \E k \in 1..Len(call[p].results) : call[p].results[k].error = "none"

\* C5: a push that has its SyncItems never rejects because an item failed:
\* it ends only when every item has been attempted, and it resolves with
\* exactly one result per SyncItem, those of the failed items included.
PushCollectsEveryResult ==
  [][\A p \in Callers :
       PushEnds(p) =>
         /\ call'[p].pc # "rejected"
         /\ AllDone(call[p])
         /\ Len(call'[p].results) = Len(call[p].items)
         /\ \A i \in 1..Len(call[p].items) :
              Cardinality({k \in 1..Len(call'[p].results) :
                             call'[p].results[k].id = call[p].items[i].entityId}) = 1]_vars

\* A push has resolved with two results, one of them carrying an error
\* and coming before one that carries none.
PushResolvedWithAFailure ==
  \E p \in Callers :
    /\ call[p].op = "push"
    /\ call[p].pc = "resolved"
    /\ Len(call[p].results) = 2
    /\ call[p].results[1].error # "none"
    /\ call[p].results[2].error = "none"

\* C6: when a push ends, no SyncItem is left for an entity whose result
\* carries no error, and the SyncItem of every item whose request failed is
\* still in the sync table with its operation.
PushClearsOnlySuccesses ==
  [][\A p \in Callers :
       PushEnds(p) =>
         \A k \in 1..Len(call'[p].results) :
           LET r == call'[p].results[k]
           IN /\ r.error = "none" => \A s \in syncItems' : s.entityId # r.id
              /\ r.error \in {"Network", "EntityNotFound"} =>
                   SyncItem(r.id, r.operation) \in syncItems']_vars

\* A push has resolved after one request succeeded and one failed on the
\* network, and the failed item is the one SyncItem left.
FailedItemStillPending ==
  \E p \in Callers :
    /\ call[p].op = "push"
    /\ call[p].pc = "resolved"
    /\ \E k, m \in 1..Len(call[p].results) :
         /\ call[p].results[k].error = "none"
         /\ call[p].results[m].error = "Network"
         /\ syncItems = {SyncItem(call[p].results[m].id, call[p].results[m].operation)}

\* Whether every result of the call carries no error, and whether a push
\* without a query has resolved so.
Clean(c) == \A k \in 1..Len(c.results) : c.results[k].error = "none"
NoPushHasItems ==
  \A r \in Callers :
    call[r].pc = "pushing" => (call[r].items = <<>> /\ call[r].results = <<>>)

\* C7 as stated: once a push without a query has resolved, no SyncItem is
\* pending, and every push from then on finds nothing to push and returns
\* an empty array.
PushLeavesNothingPending ==
  /\ [][\A p \in Callers :
          (PushEnds(p) /\ call'[p].pc = "resolved" /\ ~call[p].query.defined)
            => syncItems' = {}]_vars
  /\ []((\E p \in Callers :
            call[p].op = "push" /\ call[p].pc = "resolved" /\ ~call[p].query.defined)
          => []NoPushHasItems)

\* C7, for a push none of whose results carries an error: once a push
\* without a query has resolved so, no SyncItem is pending, and every push
\* from then on finds nothing to push and returns an empty array.
CleanPushLeavesNothingPending ==
  /\ [][\A p \in Callers :
          (/\ PushEnds(p)
           /\ call'[p].pc = "resolved"
           /\ ~call[p].query.defined
           /\ Clean(call'[p]))
            => syncItems' = {}]_vars
  /\ []((\E p \in Callers :
            /\ call[p].op = "push"
            /\ call[p].pc = "resolved"
            /\ ~call[p].query.defined
            /\ Clean(call[p]))
          => []NoPushHasItems)

\* A push without a query has resolved with two results, neither carrying
\* an error.
CleanPushOfTwoResolved ==
  \E p \in Callers :
    /\ call[p].op = "push"
    /\ call[p].pc = "resolved"
    /\ ~call[p].query.defined
    /\ Len(call[p].results) = 2
    /\ Clean(call[p])

\* The step in which the POST of item i of caller p's push, made for an
\* entity created offline with a local id, is answered by the backend.
LocalCreateAnswered(p, i) ==
  /\ call[p].pc = "pushing"
  /\ i \in 1..Len(call[p].items)
  /\ call[p].items[i].st = "sent"
  /\ call[p].items[i].op = "Create"
  /\ call[p].items[i].read.local
  /\ call'[p].pc = "pushing"
  /\ call'[p].items[i].st = "done"
  /\ call'[p].results[Len(call'[p].results)].error = "none"

\* C8: the POST for an entity created offline with a local id carries the
\* entity without _id and without _kmd.local; once the backend has answered,
\* the offline repository holds no entity under the local id and holds the
\* backend's entity under the id the backend minted, no SyncItem is left
\* for the local id, and the result is the local id, Create and the
\* backend's entity.
PushOfLocalCreate ==
  /\ [](\A p \in Callers : \A i \in 1..Len(call[p].items) :
          LET it == call[p].items[i]
          IN (it.st = "sent" /\ it.op = "Create" /\ it.read.local) =>
               it.body = Ent(0, it.read.val, FALSE))
  /\ [][\A p \in Callers : \A i \in 1..NumIds :
          LocalCreateAnswered(p, i) =>
            LET it == call[p].items[i]
                r == call'[p].results[Len(call'[p].results)]
            IN /\ r.id = it.entityId
               /\ r.operation = "Create"
               /\ r.entity = Ent(r.entity.id, it.read.val, FALSE)
               /\ r.entity.id \in SrvIds
               /\ server[r.entity.id] = Absent
               /\ server'[r.entity.id] = r.entity.val
               /\ it.entityId \notin IdsOf(offline')
               /\ Cardinality({k \in 1..Len(offline') : offline'[k] = r.entity}) = 1
               /\ Cardinality({k \in 1..Len(offline') : offline'[k].id = r.entity.id}) = 1
               /\ \A s \in syncItems' : s.entityId # it.entityId]_vars

\* A result of a push says that the entity of a local id was created on
\* the backend, which is held offline under the backend's id only.
LocalCreatePushed ==
  \E p \in Callers : \E k \in 1..Len(call[p].results) :
    LET r == call[p].results[k]
    IN /\ r.operation = "Create"
       /\ r.error = "none"
       /\ r.id \in Ids
       /\ r.entity.id \in SrvIds
       /\ r.entity \in Range(offline)
       /\ r.id \notin IdsOf(offline)

\* The step in which a regular pull writes what it fetched and resolves.
PullApplied(p) ==
  /\ call[p].pc = "apply"
  /\ call'[p].pc = "resolved"
Bounded(q) == q.defined /\ (hasSkip(q) \/ hasLimit(q))
MatchesQuery(e, q) == ~q.defined \/ Matches(e, q)

\* C9: a pull whose query carries a skip or a limit deletes nothing: every
\* entity that was offline and is not among the fetched is still there
\* unchanged, every fetched entity is there, and nothing else is.
BoundedPullKeepsTheRest ==
  [][\A p \in Callers :
       (PullApplied(p) /\ Bounded(call[p].query)) =>
         /\ IdsOf(offline) \subseteq IdsOf(offline')
         /\ \A k \in 1..Len(offline) :
              offline[k].id \notin IdsOf(call[p].data) => offline[k] \in Range(offline')
         /\ Range(call[p].data) \subseteq Range(offline')
         /\ Range(offline') \subseteq Range(offline) \cup Range(call[p].data)
         /\ call'[p].value = Len(call[p].data)]_vars

\* A pull with a limit has resolved with one entity while the offline
\* repository holds an entity more.
BoundedPullResolved ==
  \E p \in Callers :
    /\ call[p].op = "pull"
    /\ call[p].pc = "resolved"
    /\ hasLimit(call[p].query)
    /\ call[p].value = 1
    /\ Len(offline) = 2

\* C10 as stated: after a regular pull without skip and limit, the offline
\* entities that match the query are exactly the fetched ones, the offline
\* entities that do not match are unchanged, and the pull resolves with
\* the number fetched.
PullReplacesSnapshot ==
  [][\A p \in Callers :
       (PullApplied(p) /\ ~Bounded(call[p].query)) =>
         LET q == call[p].query
         IN /\ Range(applyQueryToDataset(offline', q)) = Range(call[p].data)
            /\ {e \in Range(offline') : ~MatchesQuery(e, q)}
                 = {e \in Range(offline) : ~MatchesQuery(e, q)}
            /\ call'[p].value = Len(call[p].data)]_vars

\* C10, with the entities the fetch replaces set apart: after a regular
\* pull without skip and limit, the offline entities that match the query
\* are exactly the fetched ones, the offline entities that do not match
\* and whose _id is not among the fetched are unchanged and are the only
\* non-matching ones left, and the pull resolves with the number fetched.
PullReplacesSnapshotById ==
  [][\A p \in Callers :
       (PullApplied(p) /\ ~Bounded(call[p].query)) =>
         LET q == call[p].query
         IN /\ Range(applyQueryToDataset(offline', q)) = Range(call[p].data)
            /\ {e \in Range(offline') : ~MatchesQuery(e, q)}
                 = {e \in Range(offline) :
                      ~MatchesQuery(e, q) /\ e.id \notin IdsOf(call[p].data)}
            /\ call'[p].value = Len(call[p].data)]_vars

\* A pull with a filter and without skip and limit has resolved with one
\* entity while the offline repository also holds one that does not match.
FilteredPullResolved ==
  \E p \in Callers :
    /\ call[p].op = "pull"
    /\ call[p].pc = "resolved"
    /\ call[p].query.defined
    /\ ~Bounded(call[p].query)
    /\ call[p].value = 1
    /\ \E e \in Range(offline) : ~MatchesQuery(e, call[p].query)

\* The step in which the delta-set pull of caller p writes and resolves.
DeltaApplied(p) ==
  /\ call[p].pc = "delta"
  /\ call'[p].pc = "resolved"

\* C11: when a delta-set pull has received {changed, deleted}, no id of
\* deleted is offline afterwards, every entity of changed is offline as the
\* backend sent it, every other offline entity is unchanged and nothing else
\* is added, the CachedQuery's lastRequest is the request start of that
\* response, and the pull resolves with changed.length.
DeltaPullAppliesDifference ==
  [][\A p \in Callers :
       DeltaApplied(p) =>
         LET changed == call[p].data
             deleted == call[p].deleted
         IN /\ IdsOf(offline') \cap deleted = {}
            /\ Range(changed) \subseteq Range(offline')
            /\ \A k \in 1..Len(offline) :
                 offline[k].id \notin (deleted \cup IdsOf(changed))
                   => offline[k] \in Range(offline')
            /\ \A e \in Range(offline') :
                 e.id \in IdsOf(changed) \/ e \in Range(offline)
            /\ cachedQuery'[QueryKey(call[p].query)] = call[p].lastRequest
            /\ call'[p].value = Len(changed)]_vars

\* A delta-set pull resolved with one changed entity after another client
\* deleted one.
DeltaPullResolved ==
  \E p \in Callers :
    /\ call[p].pc = "resolved"
    /\ call[p].options.useDeltaSet
    /\ call[p].sent.deltaset = 1
    /\ call[p].value = 1
    /\ cachedQuery[QueryKey(call[p].query)] = clock
    /\ \E i \in Ids : server[i] = Absent /\ lmt[i] > 1 /\ i \notin IdsOf(offline)

AfterDeltaSetRequest(p) ==
  /\ ~Settled(call[p])
  /\ call[p].sent.deltaset = 1
  /\ call'[p] # call[p]

\* C13: when the backend answers the _deltaset request of a pull with
\* InvalidCachedQuery, the pull deletes the CachedQuery of the query and
\* pulls again with useDeltaSet false: one regular find and no second
\* _deltaset request; the call settles as that regular pull does, with the
\* number of fetched entities, which are offline afterwards.
DeltaSetFallback ==
  /\ [](\A p \in Callers : call[p].sent.deltaset <= 1 /\ call[p].sent.find <= 1)
  /\ [][\A p \in Callers :
          /\ (AfterDeltaSetRequest(p) /\ call[p].pc = "invalid") =>
                /\ call'[p] = [call[p] EXCEPT !.pc = "pull",
                                              !.options.useDeltaSet = FALSE]
                /\ cachedQuery'[QueryKey(call[p].query)] = 0
          /\ (AfterDeltaSetRequest(p) /\ call[p].pc = "pull") =>
                /\ call'[p].pc = "fetching"
                /\ call'[p].sent = [call[p].sent EXCEPT !.find = 1]
          /\ (AfterDeltaSetRequest(p) /\ call[p].pc = "fetching") =>
                \/ /\ call'[p].pc = "apply"
                   /\ call'[p].data = applyQueryToDataset(ServerEntities, call[p].query)
                \/ /\ call'[p].pc = "rejected"
                   /\ call'[p].error = "Network"
          /\ (AfterDeltaSetRequest(p) /\ PullApplied(p)) =>
                /\ call'[p].value = Len(call[p].data)
                /\ call'[p].sent = [NoneSent EXCEPT !.deltaset = 1, !.find = 1]
                /\ Range(call[p].data) \subseteq Range(offline')]_vars

\* A pull with useDeltaSet resolved with two entities by the regular find
\* it fell back to.
FallbackPullResolved ==
  \E p \in Callers :
    /\ call[p].pc = "resolved"
    /\ ~call[p].options.useDeltaSet
    /\ call[p].sent = [NoneSent EXCEPT !.deltaset = 1, !.find = 1]
    /\ call[p].value = 2
    /\ cachedQuery[QueryKey(call[p].query)] > 0

\* A step of a pull of caller p whose query has a skip or a limit.
BoundedPullStep(p) ==
  /\ call[p].op = "pull"
  /\ ~Settled(call[p])
  /\ Bounded(call[p].query)
  /\ call'[p] # call[p]

\* C14: a pull with useDeltaSet whose query has a skip or a limit sends no
\* _deltaset request; it is a regular bounded pull (one find, the fetched
\* entities upserted, nothing deleted, resolved with their number), and no
\* step of it changes the lastRequest of any CachedQuery, that of the same
\* filter without skip and limit included.
BoundedPullBypassesDeltaSet ==
  [][\A p \in Callers :
       BoundedPullStep(p) =>
         /\ call'[p].sent.deltaset = 0
         /\ cachedQuery' = cachedQuery
         /\ call[p].pc = "invalid" =>
              call'[p] = [call[p] EXCEPT !.pc = "pull", !.options.useDeltaSet = FALSE]
         /\ (call[p].pc = "pull" /\ ~call[p].options.useDeltaSet) =>
              call'[p].pc = "fetching"
         /\ PullApplied(p) =>
              /\ call[p].sent = [NoneSent EXCEPT !.find = 1]
              /\ offline' = _update(offline, call[p].data)
              /\ call'[p].value = Len(call[p].data)]_vars

\* A pull with useDeltaSet and a limit has left the delta-set branch without
\* a request, while the query without the limit has a lastRequest.
BoundedDeltaPullBypassed ==
  \E p \in Callers :
    /\ call[p].pc = "invalid"
    /\ call[p].options.useDeltaSet
    /\ hasLimit(call[p].query)
    /\ call[p].sent = NoneSent
    /\ cachedQuery[QueryKey(call[p].query)] > 0

\* The step in which the auto-paginated pull of caller p resolves.
PagedPullEnds(p) ==
  /\ call[p].pc = "pages"
  /\ call'[p].pc = "resolved"
\* The backend's entities that match the filter of q.
ServerMatching(q) == applyQueryToDataset(ServerEntities, countQuery(q))

\* C15: an auto-paginated pull of a query without skip and limit, with page
\* size p, from a backend that does not change and holds N entities matching
\* the query, all requests answered: the count request is sent once and
\* before any page, the requestStart of its response is kept, and when the
\* pull resolves it has sent ceil(N / p) page requests and nothing else, the
\* offline collection holds exactly the N entities of the backend, the value
\* is N, and the CachedQuery's lastRequest is the requestStart of the count
\* response.
PaginatedPull ==
  /\ [](\A p \in Callers :
          /\ call[p].sent.count <= 1
          /\ call[p].sent.page > 0 => call[p].sent.count = 1)
  /\ [][\A p \in Callers :
          /\ (call[p].pc = "counting" /\ call'[p].pc = "pages") =>
                call'[p].lastRequest = clock
          /\ (call[p].pc = "pages" /\ call'[p].pc = "pages") =>
                call'[p].lastRequest = call[p].lastRequest
          /\ (PagedPullEnds(p)
                /\ \A k \in 1..Len(call[p].pages) : call[p].pages[k].st = "done") =>
                LET N == Len(ServerMatching(call[p].query))
                IN /\ call[p].sent = [NoneSent EXCEPT
                                        !.count = 1,
                                        !.page = Ceil(N, call[p].options.pageSize)]
                   /\ Range(offline') = Range(ServerMatching(call[p].query))
                   /\ Len(offline') = N
                   /\ call'[p].value = N
                   /\ cachedQuery'[QueryKey(call[p].query)] = call[p].lastRequest]_vars

\* An auto-paginated pull of three entities in two pages has resolved, and
\* its CachedQuery has the time of the count, which has passed.
PaginatedPullResolved ==
  \E p \in Callers :
    /\ call[p].pc = "resolved"
    /\ call[p].options.pageSize = 2
    /\ call[p].sent = [NoneSent EXCEPT !.count = 1, !.page = 2]
    /\ call[p].value = 3
    /\ Len(offline) = 3
    /\ cachedQuery[QueryKey(call[p].query)] = 1
    /\ clock = MaxClock

\* C16: with every request of the application answered 401 until the
\* session is refreshed and 200 afterwards, at most one refresh is POSTed to
\* /oauth/token, however the 401 responses interleave with the refresh.
RefreshSerialized == session.refreshes <= 1

\* The step in which the refresh started by request r fails.
RefreshFails(r) ==
  /\ request[r].pc \in {"token", "login"}
  /\ session'.errors = session.errors + 1

\* C17: when the refresh fails, the request that started it and every
\* request queued behind it are rejected with InvalidCredentials, an error
\* goes to refreshUserSubject, and the request queue is not paused.
RefreshFailureRejects ==
  [][\A r \in Requests :
       RefreshFails(r) =>
         /\ \A q \in {r} \cup requestQueue.queued :
              /\ request'[q].pc = "rejected"
              /\ request'[q].result = "InvalidCredentials"
         /\ ~requestQueue'.isPaused]_vars

\* The step in which request r, executing with retry false, has 401.
SpentRequestRefused(r) ==
  /\ request[r].pc = "sent"
  /\ ~request[r].retry
  /\ request'[r] # request[r]
  /\ request'[r].pc # "resolved"

\* C18: a request is sent again at most once after a 401: a request that
\* executes with retry false and has 401 again rejects with
\* InvalidCredentials and is neither sent again nor put on the request queue.
RetryAtMostOnce ==
  [][\A r \in Requests :
       SpentRequestRefused(r) =>
         /\ request'[r].pc = "rejected"
         /\ request'[r].result = "InvalidCredentials"
         /\ r \notin requestQueue'.queued]_vars

\* A step of the sync of caller p before its push has resolved.
SyncPushStep(p) ==
  /\ call[p].op = "sync"
  /\ ~Settled(call[p])
  /\ ~call[p].push.done
  /\ call'[p] # call[p]

\* C19: CacheStore.sync pushes, then pulls: the pull (its count of pending
\* items, its find) starts only when the push has resolved; the sync
\* resolves with the results of that push and the number the pull resolved
\* with; a push that rejects rejects the sync with its error, and no find
\* has been sent.
SyncPushesThenPulls ==
  /\ [](\A p \in Callers :
          (call[p].op = "sync" /\ (call[p].pc \in {"count", "pull", "fetching", "apply"}
                                     \/ call[p].sent.find > 0))
            => call[p].push.done)
  /\ [][\A p \in Callers :
          /\ SyncPushStep(p) =>
                /\ call'[p].sent.find = 0
                /\ call'[p].pc \in {"ids", "items", "pushing", "count", "rejected"}
                /\ call'[p].pc = "count" =>
                     /\ call[p].pc = "pushing"
                     /\ AllDone(call[p])
                     /\ call'[p].push = [done |-> TRUE, results |-> call[p].results]
                /\ call'[p].pc = "rejected" => call'[p].error \in {"Sync", "Persister"}
          /\ (call[p].op = "sync" /\ PullApplied(p)) =>
                /\ call'[p].push = call[p].push
                /\ call'[p].value = Len(call[p].data)]_vars

\* A sync has resolved with the two results of its push and two pulled
\* entities.
SyncResolved ==
  \E p \in Callers :
    /\ call[p].op = "sync"
    /\ call[p].pc = "resolved"
    /\ call[p].push.done
    /\ Len(call[p].push.results) = 2
    /\ call[p].value = 2

\* The merge table: the pending operation after operation new on an id whose
\* pending operation was prev ("none": no SyncItem).
MergeTable(prev, new) ==
  CASE prev = "none" -> new
    [] prev = "Create" /\ new = "Update" -> "Create"
    [] prev = "Create" /\ new = "Delete" -> "none"
    [] prev = "Update" /\ new = "Update" -> "Update"
    [] prev = "Update" /\ new = "Delete" -> "Delete"
    [] prev = "Delete" -> "Delete"
RECURSIVE FoldIntents(_)
FoldIntents(events) ==
  IF events = <<>> THEN "none"
  ELSE MergeTable(FoldIntents(SubSeq(events, 1, Len(events) - 1)),
                  events[Len(events)].op)

\* C20: the sync table holds at most one SyncItem per entity id, and its
\* operation is the fold of the merge table over the local operations on
\* the id (Create+Update = Create, Create+Delete = no item, Update+Update =
\* Update, Update+Delete = Delete); an operation on an id whose pending
\* operation is Delete, and only such an operation, fails with the Sync
\* error and leaves the item as it is.
IntentMerge ==
  \A i \in Ids :
    /\ Cardinality({s \in syncItems : s.entityId = i}) <= 1
    /\ pendingOp(syncItems, i) = FoldIntents(intents[i])
    /\ \A k \in 1..Len(intents[i]) :
         intents[i][k].error =
           IF FoldIntents(SubSeq(intents[i], 1, k - 1)) = "Delete"
           THEN "Sync" ELSE "none"

\* An id was created, updated and deleted locally and has no SyncItem, and
\* another was updated and deleted, and an update of it was then refused.
IntentsMerged ==
  \E i, j \in Ids :
    /\ [k \in 1..Len(intents[i]) |-> intents[i][k].op] = <<"Create", "Update", "Delete">>
    /\ pendingOp(syncItems, i) = "none"
    /\ [k \in 1..Len(intents[j]) |-> intents[j][k].op] = <<"Update", "Delete", "Update">>
    /\ intents[j][3].error = "Sync"
    /\ syncItems = {SyncItem(j, "Delete")}

\* The keys of this app in the persister, and the key of its active user.
OwnKeys == {AppKey \o Dot \o c : c \in CollectionNames}
ActiveUserSlot == AppKey \o Dot \o activeUserKey
StartsWithAppKey == <<"k", "2">> \o Dot \o Books

\* C24: a clear changes no key but keys of this app, never the key of the
\* active user (also when it is called for active_user), and never a key of
\* another app, the app whose key starts with this app's key included; when
\* a clear without a collection resolves, every key of this app except the
\* active user's is deleted.
RepoClearKeepsOthers ==
  [][/\ \A key \in PersisterKeys :
          persister'[key] # persister[key] => key \in OwnKeys \ {ActiveUserSlot}
     /\ (clearing.pc = "delete" /\ clearing'.pc = "done"
           /\ clearing.collection = NoCollection)
        => \A key \in OwnKeys \ {ActiveUserSlot} : persister'[key] = Absent]_vars
\* A clear of everything has resolved in a persister that held books and
\* the active user of this app and books of the app with the longer key.
RepoCleared ==
  /\ clearing.pc = "done"
  /\ clearing.collection = NoCollection
  /\ {AppKey \o Dot \o Books, ActiveUserSlot, StartsWithAppKey} \subseteq clearing.keys
  /\ persister[AppKey \o Dot \o Books] = Absent
  /\ persister[ActiveUserSlot] = 1
  /\ persister[StartsWithAppKey] = 1

\* The step in which the update at the head of the queue writes and resolves.
UpdateWrites ==
  /\ crud.queue # <<>>
  /\ crud.queue[1].op.type = "update"
  /\ crud.queue[1].st = "read"
  /\ crud'.queue = Tail(crud.queue)
UpdateInput == crud.queue[1].op.ents
\* The rest of what update does: it resolves with its input; every stored
\* position keeps its _id, and its entity when the _id is not in the input;
\* the _ids that were not stored are appended, once each.
UpdateUpsertsTheRest ==
  /\ crud'.result.entities = UpdateInput
  /\ Len(offline') >= Len(offline)
  /\ \A i \in 1..Len(offline) :
       /\ offline'[i].id = offline[i].id
       /\ offline[i].id \notin IdsOf(UpdateInput) => offline'[i] = offline[i]
  /\ IdsOf(SubSeq(offline', Len(offline) + 1, Len(offline')))
       = IdsOf(UpdateInput) \ IdsOf(offline)
  /\ Len(offline') - Len(offline) = Cardinality(IdsOf(UpdateInput) \ IdsOf(offline))

\* C25 as stated: after update, readById answers e for every entity e of the
\* input, stored entities of other _ids are unchanged, entities of stored
\* _ids are replaced in place and the others appended.
UpdateUpsertsEveryInput ==
  [][UpdateWrites =>
       /\ \A k \in 1..Len(UpdateInput) :
            readById(offline', UpdateInput[k].id) = UpdateInput[k]
       /\ UpdateUpsertsTheRest]_vars

\* C25, amended: after update, readById answers, for every _id of the
\* input, the last entity of the input with that _id; the rest as stated.
UpdateUpsertsLastOfEachId ==
  [][UpdateWrites =>
       /\ \A k \in 1..Len(UpdateInput) :
            (\A j \in (k + 1)..Len(UpdateInput) : UpdateInput[j].id # UpdateInput[k].id)
              => readById(offline', UpdateInput[k].id) = UpdateInput[k]
       /\ UpdateUpsertsTheRest]_vars
\* An update of two entities, one stored and one new, has resolved.
UpdateResolved ==
  /\ crud.done.type = "update"
  /\ Len(crud.done.ents) = 2
  /\ crud.done.ents[1].id # crud.done.ents[2].id
  /\ crud.done.ents[1].id \in IdsOf(crud.base)
  /\ crud.done.ents[2].id \notin IdsOf(crud.base)
  /\ Len(crud.issued) = 1
  /\ readById(offline, crud.done.ents[1].id) = crud.done.ents[1]
  /\ readById(crud.base, crud.done.ents[1].id) # crud.done.ents[1]

\* The array after the operations ops were applied one after the other.
RECURSIVE ApplyInOrder(_, _)
ApplyInOrder(ops, all) ==
  IF ops = <<>> THEN all
  ELSE ApplyInOrder(Tail(ops), applyCrud(Head(ops), all))
\* The operations that have resolved: all issued but those still queued.
CrudResolved == SubSeq(crud.issued, 1, Len(crud.issued) - Len(crud.queue))

\* C29: only the mutation at the head of the queue has read the array, and
\* the persisted array is the result of applying the resolved mutations in
\* the order they were issued (all of them once the queue is empty).
NoLostUpdate ==
  /\ \A k \in 2..Len(crud.queue) : crud.queue[k].st = "queued"
  /\ offline = ApplyInOrder(CrudResolved, crud.base)
\* Two mutations were issued before the first one had written; the first has
\* resolved and the second has read what the first wrote.
SecondMutationReadsFirst ==
  /\ Len(crud.issued) = 2
  /\ Len(crud.queue) = 1
  /\ crud.queue[1].st = "read"
  /\ crud.queue[1].all # crud.base
  /\ crud.issued[1].type = "create"
  /\ crud.issued[2].type = "update"

\* The local operations recorded for an id, in order.
IntentOps(i) == [k \in 1..Len(intents[i]) |-> intents[i][k].op]
\* The id was created locally and then removed, each while no call was in
\* progress, and nothing else was ever done with it.
CreatedThenRemoved(x) ==
  /\ IntentOps(x) = <<"Create", "Delete">>
  /\ intents[x][1].quiet
  /\ intents[x][2].quiet

\* C21: once an entity that was created locally has been removed again, it
\* has no SyncItem and no offline entity, the backend never holds it, and no
\* call (push, or the push of a pull) has an item to send for it.
CreateThenRemoveLeavesNothing ==
  \A x \in Ids :
    CreatedThenRemoved(x) =>
      /\ pendingOp(syncItems, x) = "none"
      /\ x \notin IdsOf(offline)
      /\ server[x] = Absent
      /\ \A p \in Callers : \A k \in 1..Len(call[p].items) :
           call[p].items[k].entityId # x
\* An entity was created and removed, and a later push is sending the item
\* of another entity.
PushAfterCreateAndRemove ==
  /\ CreatedThenRemoved(1)
  /\ call["A"].op = "push"
  /\ call["A"].pc = "pushing"
  /\ Len(call["A"].items) = 1
  /\ call["A"].items[1].st = "sent"

\* The step in which the queue starts item i of the push of p, and the step
\* in which the answer to its request is handled.
ItemStarts(p, i) ==
  /\ call[p].pc = "pushing"
  /\ i \in 1..Len(call[p].items)
  /\ call[p].items[i].st = "queued"
  /\ call'[p].pc = "pushing"
  /\ call'[p].items[i].st # "queued"
ItemAnswered(p, i) ==
  /\ call[p].pc = "pushing"
  /\ i \in 1..Len(call[p].items)
  /\ call[p].items[i].st = "sent"
  /\ call'[p].pc = "pushing"
  /\ call'[p].items[i].st = "done"
LastResult(c) == c.results[Len(c.results)]

\* C26: when the offline entity of a SyncItem is missing, a Create or Update
\* item is finished without a request, its SyncItem is gone and its result
\* carries NotFound; a Delete item is sent, and when its request succeeds
\* the SyncItem is cleared.
MissingEntityPush ==
  [][\A p \in Callers : \A i \in 1..MaxIntents :
       /\ (ItemStarts(p, i) /\ call[p].items[i].entityId \notin IdsOf(offline)) =>
            IF call[p].items[i].op = "Delete"
            THEN /\ call'[p].items[i].st = "sent"
                 /\ syncItems' = syncItems
            ELSE /\ call'[p].items[i].st = "done"
                 /\ LastResult(call'[p]).id = call[p].items[i].entityId
                 /\ LastResult(call'[p]).error = "NotFound"
                 /\ pendingOp(syncItems', call[p].items[i].entityId) = "none"
                 /\ server' = server
       /\ (ItemAnswered(p, i) /\ call[p].items[i].op = "Delete"
             /\ call[p].items[i].read = NoEntity
             /\ LastResult(call'[p]).error = "none") =>
            /\ pendingOp(syncItems', call[p].items[i].entityId) = "none"
            /\ server'[call[p].items[i].entityId] = Absent
            /\ server[call[p].items[i].entityId] # Absent]_vars
\* A push has dropped the Create of an entity that was removed meanwhile
\* and has deleted on the backend an entity that is not in the cache.
MissingEntitiesPushed ==
  /\ call["A"].pc = "pushing"
  /\ \E k \in 1..Len(call["A"].results) :
       /\ call["A"].results[k].operation = "Create"
       /\ call["A"].results[k].error = "NotFound"
  /\ \E k \in 1..Len(call["A"].results) :
       /\ call["A"].results[k].operation = "Delete"
       /\ call["A"].results[k].error = "none"

\* The ids of the items a call's push has taken.
ItemIds(c) == {c.items[k].entityId : k \in 1..Len(c.items)}
\* The push of p was called with a query and getSyncItems has answered.
QueryPushRuns(p) == call[p].pc = "pushing" /\ call[p].ids.defined

\* C27: a push with a query takes exactly the SyncItems whose entityId is
\* the _id of an offline entity the query reads at that moment; while it
\* runs every other SyncItem stays in the sync table as it is, only taken
\* items are sent, and results are returned for taken items only.
QueryPushSelects ==
  /\ [][\A p \in Callers :
          /\ (call[p].pc = "items" /\ call[p].ids.defined /\ call'[p].pc = "pushing") =>
               ItemIds(call'[p]) =
                 {s.entityId : s \in {t \in syncItems :
                    t.entityId \in IdsOf(applyQueryToDataset(offline, call[p].query))}}
          /\ (QueryPushRuns(p) /\ call'[p] # call[p]) =>
               /\ \A s \in syncItems : s.entityId \notin ItemIds(call[p]) => s \in syncItems'
               /\ \A i \in Ids : i \notin ItemIds(call[p]) => server'[i] = server[i]]_vars
  /\ [](\A p \in Callers :
          QueryPushRuns(p) =>
            \A k \in 1..Len(call[p].results) : call[p].results[k].id \in ItemIds(call[p]))
\* A push with a filter has sent and finished its one item while the
\* SyncItem of an entity the filter does not read is still pending.
QueryPushLeftTheRest ==
  /\ call["A"].op = "push"
  /\ QueryPushRuns("A")
  /\ call["A"].query.filter = 1
  /\ Len(call["A"].items) = 1
  /\ Len(call["A"].results) = 1
  /\ call["A"].results[1].error = "none"
  /\ \E s \in syncItems :
       /\ s.entityId \notin ItemIds(call["A"])
       /\ s.entityId \in IdsOf(offline)

\* The requests whose refresh (POST /oauth/token, then the login) is in flight.
RefreshInFlight == {r \in Requests : request[r].pc \in {"token", "login"}}

PullResolves(p) ==
  /\ call[p].op = "pull"
  /\ ~Settled(call[p])
  /\ call'[p].pc = "resolved"

\* C30: a pull resolves from the step of its last write only (the regular
\* and the delta-set pull with the write of the fetched entities, after the
\* CachedQuery was written; the paginated pull with the write of the
\* CachedQuery once no page is queued or in flight), and while the caller's
\* pull is settled neither the offline entities nor the CachedQuery change.
PullWritesBeforeResolving ==
  [][/\ PullResolves("A") =>
          /\ call["A"].pc \in {"apply", "delta", "pages"}
          /\ (call["A"].pc = "pages") =>
               \A k \in 1..Len(call["A"].pages) :
                 call["A"].pages[k].st \in {"done", "failed"}
          /\ (call["A"].pc \in {"apply", "delta"} /\ hasCachedQuery(call["A"].query)) =>
               cachedQuery[QueryKey(call["A"].query)] > 0
     /\ Settled(call["A"]) =>
          /\ offline' = offline
          /\ cachedQuery' = cachedQuery]_vars
\* A paginated pull of two pages has resolved and has written both pages
\* and its CachedQuery.
PagedPullWritten ==
  /\ call["A"].op = "pull"
  /\ call["A"].pc = "resolved"
  /\ call["A"].sent.page = 2
  /\ call["A"].value = 2
  /\ Len(offline) = 2
  /\ cachedQuery[QueryKey(call["A"].query)] > 0

\* What a store reads and writes: what is kept under its collection name.
KeptOf(store) == tagged.state[collectionOf(store)]

CacheCleared == call'["B"] # call["B"]
\* The CachedQuery of the caller's query has no lastRequest.
NoLastRequest(p) == cachedQuery[QueryKey(call[p].query)] = 0

DeltaPagedPull(p) ==
  /\ call[p].op = "pull"
  /\ call[p].options.useDeltaSet
  /\ call[p].options.pageSize > 0

PaginationIgnoresSkipAndLimit ==
  [][\A p \in Callers :
       LET q == call[p].query
           N == Len(ServerMatching(q))
       IN /\ (call[p].pc = "counting" /\ call'[p].pc = "pages") =>
               /\ Len(call'[p].pages) = Ceil(N, call[p].options.pageSize)
               /\ \A k \in 1..Len(call'[p].pages) :
                    /\ call'[p].pages[k].query.filter = q.filter
                    /\ call'[p].pages[k].query.skip = (k - 1) * call[p].options.pageSize
                    /\ call'[p].pages[k].query.limit =
                         Min(N - (k - 1) * call[p].options.pageSize, call[p].options.pageSize)
          /\ (PagedPullEnds(p)
                /\ \A k \in 1..Len(call[p].pages) : call[p].pages[k].st = "done") =>
               /\ call[p].sent = [NoneSent EXCEPT
                                    !.count = 1,
                                    !.page = Ceil(N, call[p].options.pageSize)]
               /\ call'[p].value = N
               /\ Range(offline') = Range(ServerMatching(q))
               /\ Len(offline') = N]_vars
\* An auto-paginated pull with skip 1 and limit 1 has resolved with the
\* three entities of the backend, which are offline.
BoundedPaginatedPullResolved ==
  \E p \in Callers :
    /\ call[p].pc = "resolved"
    /\ call[p].options.pageSize > 0
    /\ call[p].query.skip = 1
    /\ call[p].query.limit = 1
    /\ call[p].value = 3
    /\ Len(offline) = 3
    /\ Len(ServerEntities) = 3

\* C33: add...Event called without entities, with an empty list, or with a
\* list in which an entity has no _id rejects with SyncError and leaves the
\* sync table as it was; a call that is not rejected resolves with the
\* entities passed in, none of which lacks an _id.
EventsValidatedFirst ==
  [][/\ (call'["A"].pc = "rejected" /\ call'["A"] # call["A"]) =>
          call'["A"].error = "Sync"
     /\ (call'["A"].pc = "resolved" /\ call'["A"] # call["A"]) =>
          /\ call'["A"].ids.defined
          /\ call'["A"].data # <<>>
          /\ \A k \in 1..Len(call'["A"].data) : call'["A"].data[k].id # 0
          /\ IdsOf(call'["A"].data) = call'["A"].ids.set
     /\ (syncItems' # syncItems) =>
          /\ call'["A"].ids.defined
          /\ call'["A"].ids.set # {}
          /\ 0 \notin call'["A"].ids.set
     /\ \A s \in syncItems' : s.entityId # 0]_vars
\* A call with an entity that has an _id and one that has none was
\* rejected, and the sync table is still empty.
EventWithoutIdRejected ==
  /\ call["A"].pc = "rejected"
  /\ call["A"].error = "Sync"
  /\ call["A"].ids.set = {0, 1}
  /\ syncItems = {}

\* The requests whose refresh has not ended.
Refreshing == {r \in Requests : request[r].pc \in {"token", "login", "waiting"}}

EveryRequestSettles ==
  \A r \in Requests :
    (request[r].pc # "idle") ~> (request[r].pc \in {"resolved", "rejected"})

\* C36: the CachedQuery's lastRequest never runs ahead of the cache: when no
\* pull is in flight, every entity the backend last changed at or before
\* lastRequest is offline as the backend has it, and every entity it deleted
\* at or before lastRequest is not offline.
LastRequestBehindCache ==
  LET mark == cachedQuery[NoFilter]
  IN (Settled(call["A"]) /\ mark > 0) =>
       \A i \in AllIds :
         lmt[i] <= mark =>
           IF server[i] = Absent
           THEN i \notin IdsOf(offline)
           ELSE Ent(i, server[i], FALSE) \in Range(offline)

\* The count the page queries were split for: the sum of their limits.
RECURSIVE ExpectedCount(_)
ExpectedCount(pages) ==
  IF pages = <<>> THEN 0
  ELSE Head(pages).query.limit + ExpectedCount(Tail(pages))

\* C37: an auto-paginated pull resolves only when every page was fetched and
\* written, and then with the number the count request reported.
PaginatedPullStoresEveryPage ==
  [][\A p \in Callers :
       (call[p].pc = "pages" /\ call'[p].pc = "resolved") =>
         /\ \A k \in 1..Len(call[p].pages) : call[p].pages[k].st = "done"
         /\ call'[p].value = ExpectedCount(call[p].pages)]_vars

\* C38: the persisted array of a collection never holds two entities with
\* the same _id.
OfflineIdsUnique ==
  \A i, j \in 1..Len(offline) : offline[i].id = offline[j].id => i = j

\* The pending Deletes whose entity is not in the offline repository.
DeletesOfRemoved ==
  {s \in syncItems : s.op = "Delete" /\ s.entityId \notin IdsOf(offline)}
ItemsOf(ids) == {s \in syncItems : s.entityId \in ids}

\* C39: with a query, push, pendingSyncCount, pendingSyncEntities and
\* clearSync select SyncItems through the entities the offline repository
\* holds: the ids they read are ids of offline entities, what they push,
\* count, return or remove are the items of those ids, so that a pending
\* Delete of a removed entity is neither pushed, counted, returned nor
\* cleared, and pull with a query does not push when only such Deletes are
\* pending.
QueriesSelectThroughEntities ==
  [][\A p \in Callers :
       LET c == call[p]
           d == call'[p]
       IN /\ (c.query.defined /\ c.pc \in {"ids", "entities"}
                /\ d.pc \in {"items", "table"}) =>
               /\ d.ids.defined
               /\ d.ids.set \subseteq IdsOf(offline)
          /\ (c.query.defined /\ c.pc = "items" /\ d.pc = "pushing") =>
               /\ \A k \in 1..Len(d.items) : d.items[k].entityId \in c.ids.set
               /\ \A k \in 1..Len(d.items) :
                    SyncItem(d.items[k].entityId, d.items[k].op) \notin DeletesOfRemoved
          /\ (c.query.defined /\ c.pc = "table" /\ d.pc = "resolved") =>
               /\ d.value = Cardinality(ItemsOf(c.ids.set))
               /\ d.value <= Cardinality(syncItems \ DeletesOfRemoved)
               /\ (syncItems \ syncItems') \subseteq ItemsOf(c.ids.set)
               /\ DeletesOfRemoved \subseteq syncItems'
          /\ (c.query.defined /\ c.pc = "count" /\ syncItems = DeletesOfRemoved) =>
               d.pc = "pull"]_vars

\* clearSync with a query has removed the items of the offline entities and
\* has left the pending Delete of a removed entity.
ClearSyncLeftDelete ==
  /\ call["A"].op = "clearSync"
  /\ call["A"].pc = "resolved"
  /\ call["A"].query.defined
  /\ call["A"].value > 0
  /\ syncItems # {}
  /\ syncItems = DeletesOfRemoved

\* The guard of a pull: from the count to the end of the push it runs.
InGuard(c) == c.op = "pull" /\ c.pc \in {"count", "ids", "items", "pushing"}

\* C40: when the push run by the guard of a pull rejects, the pull rejects
\* with the push's error before any item was pushed and before any find,
\* count or _deltaset request, the step leaves the offline entities, the
\* backend and the CachedQuery as they are, and the rejected pull sends no
\* request afterwards.
GuardRejectionStopsPull ==
  [][\A p \in Callers :
       LET c == call[p]
           d == call'[p]
       IN /\ (InGuard(c) /\ d.pc = "rejected") =>
               /\ d.error \in {"Sync", "Persister"}
               /\ (d.error = "Sync") <=> (c.pc = "count" /\ _pushIsInProgress(Collection))
               /\ c.pc # "pushing"
               /\ c.results = <<>>
               /\ c.sent = NoneSent
               /\ d.sent = NoneSent
               /\ offline' = offline
               /\ server' = server
               /\ cachedQuery' = cachedQuery
          /\ (c.op = "pull" /\ c.pc = "rejected") =>
               d.pc \in {"rejected", "count"}]_vars

\* The guard of A's pull found B's push in progress: the pull is rejected
\* with SyncError while items are pending and B's push runs.
PullRejectedByGuard ==
  /\ call["A"].op = "pull"
  /\ call["A"].pc = "rejected"
  /\ call["A"].error = "Sync"
  /\ call["A"].sent = NoneSent
  /\ InPush(call["B"])
  /\ syncItems # {}

====
